---- MODULE Spec2Model ----
(***************************************************************************)
(* Model of the finbot natural-language interpreter:                       *)
(*   backend/utils/date_parser.py    (DateParser)                          *)
(*   backend/services/nlp_parser.py  (NLPParser)                           *)
(*   backend/routers/chat.py         (process_message, _detect_intent)     *)
(*                                                                         *)
(* A text is a sequence of characters.  Characters outside ASCII are       *)
(* written with an ASCII name:                                             *)
(*   零 ling  一 yi  二 er  三 san  四 si  五 wu  六 liu  七 qi  八 ba       *)
(*   九 jiu  十 shi  百 bai  千 qian  萬 wan  兩 liang  两 liang_s           *)
(*   今 jin  天 tian  日 ri  昨 zuo  前 before  明 ming  大 da              *)
(*   上 shang  這 zhe  下 xia  週 zhou  個 ge  月 yue  號 hao  年 nian       *)
(*   本 ben  近 near  元 yuan  塊 kuai  錢 money  午 noon  餐 can  飲 yin    *)
(*   花 hua  了 le  多 duo  少 shao  查 cha  詢 xun  統 tong  計 ji         *)
(*   報 bao  告 gao  表 biao  趨 qu  勢 shi_t  分 fen  析 xi  圖 tu         *)
(*   是 is  不 bu  應 ying  該 gai  建 jian  議 yi_s  幫 bang  我 wo        *)
(*   為 wei  什 shen  麼 me  怎 zen  如 ru_as  何 he                        *)
(*   收 shou  入 ru  回 hui  口 kou  薪 xin  水 shui  車 che               *)
(* A date is a record [year, month, day] of the proleptic Gregorian        *)
(* calendar, as datetime.date.                                             *)
(***************************************************************************)
EXTENDS Integers, Sequences, FiniteSets, TLC

VARIABLES text, today, cut, op, result, history, memo, db

vars == <<text, today, cut, op, result, history, memo, db>>

(***************************************************************************)
(* Bounds of the inputs                                                    *)
(***************************************************************************)
\* the numerals checked are those of 1..MaxNumeral
MaxNumeral == 2400

\* the number of consecutive reference dates
NumTodays == 400

\* N of "N天前" ranges over 1..MaxDaysAgo
MaxDaysAgo == 31

\* N of "上個月N號" and "N號" ranges over 0..MaxDayNumber
MaxDayNumber == 32

\* the number of consecutive reference dates of the query calls
NumFewTodays == 90

\* the number of consecutive reference dates of the record calls
NumRecordTodays == 2

\* the number of pieces of a chat message
MaxIntentPieces == 3

\* the number of calls of a session
MaxCalls == 3

\* the amounts of "N元" and "$N" range over 0..MaxAmount
MaxAmount == 150

\* the number of chat messages of a conversation
MaxMessages == 2

(***************************************************************************)
(* Sequences of characters                                                 *)
(***************************************************************************)
Min(S) == CHOOSE x \in S : \A y \in S : x <= y

Max(S) == CHOOSE x \in S : \A y \in S : x >= y

\* pat occurs in t starting at index i
StartsAt(t, i, pat) ==
    /\ i >= 1
    /\ i + Len(pat) - 1 <= Len(t)
    /\ \A k \in 1..Len(pat) : t[i + k - 1] = pat[k]

\* Python: pat in t
Contains(t, pat) == \E i \in 1..(Len(t) + 1) : StartsAt(t, i, pat)

\* index of the last character of the longest run of characters of S that
\* starts at i (i - 1 when t[i] is not in S): a greedy  [S]*  from i
RunEnd(t, i, S) ==
    LET ends == {j \in i..Len(t) : \A k \in i..j : t[k] \in S}
    IN  IF ends = {} THEN i - 1 ELSE Max(ends)

\* the least index satisfying P, 0 when there is none: re.search scans the
\* start positions from left to right
Leftmost(S) == IF S = {} THEN 0 ELSE Min(S)

Digits == {"0", "1", "2", "3", "4", "5", "6", "7", "8", "9"}

Whitespace == {" "}

DigitValue(c) ==
    CASE c = "0" -> 0 [] c = "1" -> 1 [] c = "2" -> 2 [] c = "3" -> 3
      [] c = "4" -> 4 [] c = "5" -> 5 [] c = "6" -> 6 [] c = "7" -> 7
      [] c = "8" -> 8 [] c = "9" -> 9

\* Python: int(s) for a string of decimal digits
RECURSIVE ParseInt(_)
ParseInt(s) ==
    IF s = <<>> THEN 0
    ELSE ParseInt(SubSeq(s, 1, Len(s) - 1)) * 10 + DigitValue(s[Len(s)])

\* Python: s.isdigit()
IsDigitString(s) == s # <<>> /\ \A k \in 1..Len(s) : s[k] \in Digits

(***************************************************************************)
(* datetime.date, as the calendar arithmetic of the standard library       *)
(***************************************************************************)
Date(y, m, d) == [year |-> y, month |-> m, day |-> d]

IsLeap(y) == y % 4 = 0 /\ (y % 100 # 0 \/ y % 400 = 0)

DaysInMonth(y, m) ==
    IF m = 2 THEN (IF IsLeap(y) THEN 29 ELSE 28)
    ELSE IF m \in {4, 6, 9, 11} THEN 30 ELSE 31

DaysBeforeYear(y) ==
    LET p == y - 1 IN p * 365 + (p \div 4) - (p \div 100) + (p \div 400)

RECURSIVE DaysBeforeMonth(_, _)
DaysBeforeMonth(y, m) ==
    IF m = 1 THEN 0 ELSE DaysBeforeMonth(y, m - 1) + DaysInMonth(y, m - 1)

\* date.toordinal()
ToOrdinal(dt) == DaysBeforeYear(dt.year) + DaysBeforeMonth(dt.year, dt.month) + dt.day

\* date.fromordinal(n)
FromOrdinal(n) ==
    LET n0   == n - 1
        n400 == n0 \div 146097
        r400 == n0 % 146097
        n100 == r400 \div 36524
        r100 == r400 % 36524
        n4   == r100 \div 1461
        r4   == r100 % 1461
        n1   == r4 \div 365
        r1   == r4 % 365
        y    == n400 * 400 + 1 + n100 * 100 + n4 * 4 + n1
    IN  IF n1 = 4 \/ n100 = 4 THEN Date(y - 1, 12, 31)
        ELSE LET m == CHOOSE mm \in 1..12 :
                          /\ DaysBeforeMonth(y, mm) <= r1
                          /\ r1 < DaysBeforeMonth(y, mm) + DaysInMonth(y, mm)
             IN  Date(y, m, r1 - DaysBeforeMonth(y, m) + 1)

\* a weekday counted from Sunday = 0
Weekday_SundayFirst(dt) == ToOrdinal(dt) % 7

\* date.weekday(): Monday = 0 ... Sunday = 6
Weekday(dt) == (ToOrdinal(dt) + 6) % 7

MaxOrdinal == ToOrdinal(Date(9999, 12, 31))

MaxTimedeltaDays == 999999999

Raise(e) == [tag |-> "raise", exc |-> e]

None == [tag |-> "None"]

IsDate(v) == DOMAIN v = {"year", "month", "day"}

IsRaise(v) == DOMAIN v = {"tag", "exc"}

\* dt + timedelta(days = n): OverflowError when the day count is not a
\* timedelta or the result leaves date.min .. date.max
AddDays(dt, n) ==
    IF n > MaxTimedeltaDays \/ n < -MaxTimedeltaDays THEN Raise("OverflowError")
    ELSE LET o == ToOrdinal(dt) + n
         IN  IF 0 < o /\ o <= MaxOrdinal THEN FromOrdinal(o)
             ELSE Raise("OverflowError")

\* dt.replace(day = d): ValueError when the month has no day d
ReplaceDay(dt, d) ==
    IF 1 <= d /\ d <= DaysInMonth(dt.year, dt.month)
    THEN Date(dt.year, dt.month, d)
    ELSE Raise("ValueError")

\* date(y, m, d): ValueError when it is no calendar date
MakeDate(y, m, d) ==
    IF /\ 1 <= y /\ y <= 9999
       /\ 1 <= m /\ m <= 12
       /\ 1 <= d /\ d <= DaysInMonth(y, m)
    THEN Date(y, m, d)
    ELSE Raise("ValueError")

(***************************************************************************)
(* backend/utils/date_parser.py                                            *)
(***************************************************************************)
NoMatch == [start |-> 0]

\* Python: s.strip()
Strip(s) ==
    LET keep == {k \in 1..Len(s) : s[k] \notin Whitespace}
    IN  IF keep = {} THEN <<>> ELSE SubSeq(s, Min(keep), Max(keep))

DateParser_CHINESE_NUMS ==
    [c \in {"ling", "yi", "er", "san", "si", "wu", "liu", "qi", "ba", "jiu",
            "shi", "liang", "liang_s"} |->
        CASE c = "ling" -> 0 [] c = "yi" -> 1 [] c = "er" -> 2 [] c = "san" -> 3
          [] c = "si" -> 4 [] c = "wu" -> 5 [] c = "liu" -> 6 [] c = "qi" -> 7
          [] c = "ba" -> 8 [] c = "jiu" -> 9 [] c = "shi" -> 10
          [] c = "liang" -> 2 [] c = "liang_s" -> 2]

WEEKDAY_MAP ==
    [c \in {"yi", "er", "san", "si", "wu", "liu", "ri", "tian"} |->
        CASE c = "yi" -> 0 [] c = "er" -> 1 [] c = "san" -> 2 [] c = "si" -> 3
          [] c = "wu" -> 4 [] c = "liu" -> 5 [] c = "ri" -> 6 [] c = "tian" -> 6]

\* the character class [一二三四五六七八九十]
SimpleChineseDigits == {"yi", "er", "san", "si", "wu", "liu", "qi", "ba", "jiu", "shi"}

\* CHINESE_NUMS.get(s, default) for a string s of any length
DateParser_NumsGet(s, default) ==
    IF Len(s) = 1 /\ s[1] \in DOMAIN DateParser_CHINESE_NUMS
    THEN DateParser_CHINESE_NUMS[s[1]] ELSE default

RECURSIVE DateParser_FoldDigits(_, _)
DateParser_FoldDigits(s, acc) ==
    IF s = <<>> THEN acc
    ELSE DateParser_FoldDigits(Tail(s),
            IF Head(s) \in DOMAIN DateParser_CHINESE_NUMS
            THEN acc * 10 + DateParser_CHINESE_NUMS[Head(s)] ELSE acc)

\* _parse_chinese_number without the units after 十
DateParser_parse_chinese_number_NoUnits(s) ==
    IF IsDigitString(s) THEN ParseInt(s)
    ELSE IF Len(s) = 1 THEN DateParser_NumsGet(s, 1)
    ELSE LET res ==
               IF \E k \in 1..Len(s) : s[k] = "shi"
               THEN LET k1 == Min({k \in 1..Len(s) : s[k] = "shi"})
                        part0 == SubSeq(s, 1, k1 - 1)
                    IN  IF part0 # <<>> THEN DateParser_NumsGet(part0, 1) * 10 ELSE 10
               ELSE DateParser_FoldDigits(s, 0)
         IN  IF res > 0 THEN res ELSE 1

DateParser_parse_chinese_number(s) ==
    IF IsDigitString(s) THEN ParseInt(s)
    ELSE IF Len(s) = 1 THEN DateParser_NumsGet(s, 1)
    ELSE LET res ==
               IF \E k \in 1..Len(s) : s[k] = "shi"
               THEN LET k1 == Min({k \in 1..Len(s) : s[k] = "shi"})
                        later == {k \in (k1 + 1)..Len(s) : s[k] = "shi"}
                        k2 == IF later = {} THEN Len(s) + 1 ELSE Min(later)
                        part0 == SubSeq(s, 1, k1 - 1)
                        part1 == SubSeq(s, k1 + 1, k2 - 1)
                    IN  (IF part0 # <<>> THEN DateParser_NumsGet(part0, 1) * 10 ELSE 10)
                        + (IF part1 # <<>> THEN DateParser_NumsGet(part1, 0) ELSE 0)
               ELSE DateParser_FoldDigits(s, 0)
         IN  IF res > 0 THEN res ELSE 1

\* re.search(r'(\d+|[一二三四五六七八九十]+)\s*天前', t)
DaysAgoAt(t, i, S) ==
    LET j == RunEnd(t, i, S)
        k == RunEnd(t, j + 1, Whitespace) + 1
    IN  j >= i /\ StartsAt(t, k, <<"tian", "before">>)

SearchDaysAgo(t) ==
    LET i == Leftmost({k \in 1..Len(t) :
                 DaysAgoAt(t, k, Digits) \/ DaysAgoAt(t, k, SimpleChineseDigits)})
    IN  IF i = 0 THEN NoMatch
        ELSE [start |-> i,
              g1 |-> IF DaysAgoAt(t, i, Digits)
                     THEN SubSeq(t, i, RunEnd(t, i, Digits))
                     ELSE SubSeq(t, i, RunEnd(t, i, SimpleChineseDigits))]

\* re.search(r'(上|這|下)週([一二三四五六日天])', t)
SearchWeekday(t) ==
    LET i == Leftmost({k \in 1..(Len(t) - 2) :
                 /\ t[k] \in {"shang", "zhe", "xia"}
                 /\ t[k + 1] = "zhou"
                 /\ t[k + 2] \in DOMAIN WEEKDAY_MAP})
    IN  IF i = 0 THEN NoMatch ELSE [start |-> i, g1 |-> t[i], g2 |-> t[i + 2]]

\* re.search(r'上個月(\d+)[號日]?', t)
SearchLastMonthDay(t) ==
    LET i == Leftmost({k \in 1..Len(t) :
                 /\ StartsAt(t, k, <<"shang", "ge", "yue">>)
                 /\ RunEnd(t, k + 3, Digits) >= k + 3})
    IN  IF i = 0 THEN NoMatch
        ELSE [start |-> i, g1 |-> SubSeq(t, i + 3, RunEnd(t, i + 3, Digits))]

\* digits from i, directly followed by 號 or 日
DayNumberAt(t, i) ==
    LET j == RunEnd(t, i, Digits)
    IN  j >= i /\ j + 1 <= Len(t) /\ t[j + 1] \in {"hao", "ri"}

\* re.search(r'(這個月)?(\d+)[號日]', t)
SearchThisMonthDay(t) ==
    LET withPrefix(k) == StartsAt(t, k, <<"zhe", "ge", "yue">>) /\ DayNumberAt(t, k + 3)
        i == Leftmost({k \in 1..Len(t) : withPrefix(k) \/ DayNumberAt(t, k)})
        d == IF i # 0 /\ withPrefix(i) THEN i + 3 ELSE i
    IN  IF i = 0 THEN NoMatch
        ELSE [start |-> i, g2 |-> SubSeq(t, d, RunEnd(t, d, Digits))]

\* (\d{1,2}) at i followed by a character of seps: the index of the last
\* digit taken (two digits are tried before one), 0 when there is no match
OneOrTwoDigitsThen(t, i, seps) ==
    IF /\ i + 2 <= Len(t) /\ t[i] \in Digits /\ t[i + 1] \in Digits
       /\ t[i + 2] \in seps THEN i + 1
    ELSE IF i + 1 <= Len(t) /\ t[i] \in Digits /\ t[i + 1] \in seps THEN i
    ELSE 0

\* a trailing (\d{1,2}) at i: the index of the last digit taken, 0 for none
OneOrTwoDigits(t, i) ==
    IF i + 1 <= Len(t) /\ t[i] \in Digits /\ t[i + 1] \in Digits THEN i + 1
    ELSE IF i <= Len(t) /\ t[i] \in Digits THEN i
    ELSE 0

\* re.search(r'(\d{1,2})[/\-](\d{1,2})', t)
MonthDayAt(t, i) ==
    LET e1 == OneOrTwoDigitsThen(t, i, {"/", "-"})
    IN  e1 # 0 /\ OneOrTwoDigits(t, e1 + 2) # 0

SearchMonthDay(t) ==
    LET i == Leftmost({k \in 1..Len(t) : MonthDayAt(t, k)})
        e1 == OneOrTwoDigitsThen(t, i, {"/", "-"})
    IN  IF i = 0 THEN NoMatch
        ELSE [start |-> i, g1 |-> SubSeq(t, i, e1),
              g2 |-> SubSeq(t, e1 + 2, OneOrTwoDigits(t, e1 + 2))]

\* re.search(r'(\d{4})[年/\-](\d{1,2})[月/\-](\d{1,2})[日]?', t)
FullDateAt(t, i) ==
    /\ i + 4 <= Len(t)
    /\ \A k \in i..(i + 3) : t[k] \in Digits
    /\ t[i + 4] \in {"nian", "/", "-"}
    /\ LET e2 == OneOrTwoDigitsThen(t, i + 5, {"yue", "/", "-"})
       IN  e2 # 0 /\ OneOrTwoDigits(t, e2 + 2) # 0

SearchFullDate(t) ==
    LET i == Leftmost({k \in 1..Len(t) : FullDateAt(t, k)})
        e2 == OneOrTwoDigitsThen(t, i + 5, {"yue", "/", "-"})
    IN  IF i = 0 THEN NoMatch
        ELSE [start |-> i, g1 |-> SubSeq(t, i, i + 3),
              g2 |-> SubSeq(t, i + 5, e2),
              g3 |-> SubSeq(t, e2 + 2, OneOrTwoDigits(t, e2 + 2))]

\* the same rules, returning today when none matches
DateParser_parse_absolute_Today(t, td) ==
    LET m4 == SearchThisMonthDay(t)
        m5 == SearchMonthDay(t)
        m6 == SearchFullDate(t)
        r5 == IF m5.start = 0 THEN Raise("ValueError")
              ELSE MakeDate(td.year, ParseInt(m5.g1), ParseInt(m5.g2))
        r6 == IF m6.start = 0 THEN Raise("ValueError")
              ELSE MakeDate(ParseInt(m6.g1), ParseInt(m6.g2), ParseInt(m6.g3))
    IN  IF m4.start # 0
        THEN LET r == ReplaceDay(td, ParseInt(m4.g2))
             IN  IF IsRaise(r) THEN td ELSE r
        ELSE IF IsDate(r5) THEN r5
        ELSE IF IsDate(r6) THEN r6
        ELSE td

\* the rules after the 上個月 rule: 這個月X號, 12/20, 2024年12月20日
DateParser_parse_absolute(t, td) ==
    LET m4 == SearchThisMonthDay(t)
        m5 == SearchMonthDay(t)
        m6 == SearchFullDate(t)
        r5 == IF m5.start = 0 THEN Raise("ValueError")
              ELSE MakeDate(td.year, ParseInt(m5.g1), ParseInt(m5.g2))
        r6 == IF m6.start = 0 THEN Raise("ValueError")
              ELSE MakeDate(ParseInt(m6.g1), ParseInt(m6.g2), ParseInt(m6.g3))
    IN  IF m4.start # 0
        THEN LET r == ReplaceDay(td, ParseInt(m4.g2))
             IN  IF IsRaise(r) THEN td ELSE r
        ELSE IF IsDate(r5) THEN r5
        ELSE IF IsDate(r6) THEN r6
        ELSE None

\* the 上個月 rule with the ValueError handler of the 這個月 rule
DateParser_last_month_day_Today(td, day) ==
    LET last_month == AddDays(ReplaceDay(td, 1), -1)
    IN  IF IsRaise(last_month) THEN last_month
        ELSE LET r == ReplaceDay(last_month, day)
             IN  IF IsRaise(r) THEN td ELSE r

\* first_of_month - timedelta(days=1), then .replace(day=day) or the
\* ValueError handler
DateParser_last_month_day(td, day) ==
    LET first_of_month == ReplaceDay(td, 1)
        last_month == AddDays(first_of_month, -1)
    IN  IF IsRaise(last_month) THEN last_month
        ELSE LET r == ReplaceDay(last_month, day)
             IN  IF IsRaise(r) THEN last_month ELSE r

\* the rules without the literal markers 今天 .. 明日
DateParser_parse_NoMarkers(txt, td) ==
    LET t == Strip(txt)
        m1 == SearchDaysAgo(t)
        m2 == SearchWeekday(t)
        m3 == SearchLastMonthDay(t)
    IN  IF m1.start # 0
        THEN AddDays(td, -DateParser_parse_chinese_number(m1.g1))
        ELSE IF m2.start # 0
             THEN LET week_offset == CASE m2.g1 = "shang" -> -1
                                       [] m2.g1 = "zhe" -> 0
                                       [] m2.g1 = "xia" -> 1
                  IN  AddDays(td, WEEKDAY_MAP[m2.g2] - Weekday(td) + week_offset * 7)
        ELSE IF m3.start # 0
             THEN DateParser_last_month_day(td, ParseInt(m3.g1))
        ELSE DateParser_parse_absolute(t, td)

\* DateParser.parse(text) with date.today() = td: a date, None, or the
\* exception that leaves the call
DateParser_parse(txt, td) ==
    LET t == Strip(txt)
        m1 == SearchDaysAgo(t)
        m2 == SearchWeekday(t)
        m3 == SearchLastMonthDay(t)
    IN  IF Contains(t, <<"jin", "tian">>) \/ Contains(t, <<"jin", "ri">>) THEN td
        ELSE IF Contains(t, <<"zuo", "tian">>) \/ Contains(t, <<"zuo", "ri">>)
             THEN AddDays(td, -1)
        ELSE IF Contains(t, <<"before", "tian">>) THEN AddDays(td, -2)
        ELSE IF Contains(t, <<"da", "before", "tian">>) THEN AddDays(td, -3)
        ELSE IF Contains(t, <<"ming", "tian">>) \/ Contains(t, <<"ming", "ri">>)
             THEN AddDays(td, 1)
        ELSE IF m1.start # 0
             THEN AddDays(td, -DateParser_parse_chinese_number(m1.g1))
        ELSE IF m2.start # 0
             THEN LET week_offset == CASE m2.g1 = "shang" -> -1
                                       [] m2.g1 = "zhe" -> 0
                                       [] m2.g1 = "xia" -> 1
                      days_diff == WEEKDAY_MAP[m2.g2] - Weekday(td) + week_offset * 7
                  IN  AddDays(td, days_diff)
        ELSE IF m3.start # 0
             THEN DateParser_last_month_day(td, ParseInt(m3.g1))
        ELSE DateParser_parse_absolute(t, td)

(***************************************************************************)
(* backend/services/nlp_parser.py                                          *)
(***************************************************************************)
\* CATEGORY_KEYWORDS, in insertion order.  Characters without a name in the
\* legend above are written uXXXX, their code point.
CATEGORY_KEYWORDS ==
    <<
      \* 餐飲: 吃 餐 飯 午餐 晚餐 早餐 宵夜 飲料 咖啡 奶茶 便當 麵 火鍋 燒烤 外食 食 喝 零食 點心 蛋糕
      [name |-> <<"can", "yin">>,
       keywords |-> <<
          <<"u5403">>,
          <<"can">>,
          <<"u98ef">>,
          <<"noon", "can">>,
          <<"u665a", "can">>,
          <<"u65e9", "can">>,
          <<"u5bb5", "u591c">>,
          <<"yin", "u6599">>,
          <<"u5496", "u5561">>,
          <<"u5976", "u8336">>,
          <<"u4fbf", "u7576">>,
          <<"u9eb5">>,
          <<"u706b", "u934b">>,
          <<"u71d2", "u70e4">>,
          <<"u5916", "u98df">>,
          <<"u98df">>,
          <<"u559d">>,
          <<"ling", "u98df">>,
          <<"u9ede", "u5fc3">>,
          <<"u86cb", "u7cd5">>>>],
      \* 交通: 車 捷運 公車 uber 計程車 高鐵 火車 機票 加油 停車 通勤 騎 搭 坐車 交通
      [name |-> <<"u4ea4", "u901a">>,
       keywords |-> <<
          <<"che">>,
          <<"u6377", "u904b">>,
          <<"u516c", "che">>,
          <<"u", "b", "e", "r">>,
          <<"ji", "u7a0b", "che">>,
          <<"u9ad8", "u9435">>,
          <<"u706b", "che">>,
          <<"u6a5f", "u7968">>,
          <<"u52a0", "u6cb9">>,
          <<"u505c", "che">>,
          <<"u901a", "u52e4">>,
          <<"u9a0e">>,
          <<"u642d">>,
          <<"u5750", "che">>,
          <<"u4ea4", "u901a">>>>],
      \* 娛樂: 電影 遊戲 KTV 唱歌 玩 門票 旅遊 遊 看展 演唱會 娛樂 訂閱 Netflix Spotify
      [name |-> <<"u5a1b", "u6a02">>,
       keywords |-> <<
          <<"u96fb", "u5f71">>,
          <<"u904a", "u6232">>,
          <<"K", "T", "V">>,
          <<"u5531", "u6b4c">>,
          <<"u73a9">>,
          <<"u9580", "u7968">>,
          <<"u65c5", "u904a">>,
          <<"u904a">>,
          <<"u770b", "u5c55">>,
          <<"u6f14", "u5531", "u6703">>,
          <<"u5a1b", "u6a02">>,
          <<"u8a02", "u95b1">>,
          <<"N", "e", "t", "f", "l", "i", "x">>,
          <<"S", "p", "o", "t", "i", "f", "y">>>>],
      \* 購物: 買 購 衣服 鞋 包 3C 電器 手機 電腦 網購 蝦皮 淘寶 百貨 超市 便利商店 全聯
      [name |-> <<"u8cfc", "u7269">>,
       keywords |-> <<
          <<"u8cb7">>,
          <<"u8cfc">>,
          <<"u8863", "u670d">>,
          <<"u978b">>,
          <<"u5305">>,
          <<"3", "C">>,
          <<"u96fb", "u5668">>,
          <<"u624b", "u6a5f">>,
          <<"u96fb", "u8166">>,
          <<"u7db2", "u8cfc">>,
          <<"u8766", "u76ae">>,
          <<"u6dd8", "u5bf6">>,
          <<"bai", "u8ca8">>,
          <<"u8d85", "u5e02">>,
          <<"u4fbf", "u5229", "u5546", "u5e97">>,
          <<"u5168", "u806f">>>>],
      \* 醫療: 醫 藥 看診 掛號 健檢 牙 眼科 診所 醫院
      [name |-> <<"u91ab", "u7642">>,
       keywords |-> <<
          <<"u91ab">>,
          <<"u85e5">>,
          <<"u770b", "u8a3a">>,
          <<"u639b", "hao">>,
          <<"u5065", "u6aa2">>,
          <<"u7259">>,
          <<"u773c", "u79d1">>,
          <<"u8a3a", "u6240">>,
          <<"u91ab", "u9662">>>>],
      \* 居住: 房租 水電 電費 水費 瓦斯 管理費 網路 cable 租金 房貸 維修
      [name |-> <<"u5c45", "u4f4f">>,
       keywords |-> <<
          <<"u623f", "u79df">>,
          <<"shui", "u96fb">>,
          <<"u96fb", "u8cbb">>,
          <<"shui", "u8cbb">>,
          <<"u74e6", "u65af">>,
          <<"u7ba1", "u7406", "u8cbb">>,
          <<"u7db2", "u8def">>,
          <<"c", "a", "b", "l", "e">>,
          <<"u79df", "u91d1">>,
          <<"u623f", "u8cb8">>,
          <<"u7dad", "u4fee">>>>],
      \* 教育: 書 課 學費 補習 教材 文具 考試 證照 線上課程
      [name |-> <<"u6559", "u80b2">>,
       keywords |-> <<
          <<"u66f8">>,
          <<"u8ab2">>,
          <<"u5b78", "u8cbb">>,
          <<"u88dc", "u7fd2">>,
          <<"u6559", "u6750">>,
          <<"u6587", "u5177">>,
          <<"u8003", "u8a66">>,
          <<"u8b49", "u7167">>,
          <<"u7dda", "shang", "u8ab2", "u7a0b">>>>],
      \* 薪資: 薪 薪水 工資 發薪 月薪 獎金 年終
      [name |-> <<"xin", "u8cc7">>,
       keywords |-> <<
          <<"xin">>,
          <<"xin", "shui">>,
          <<"u5de5", "u8cc7">>,
          <<"u767c", "xin">>,
          <<"yue", "xin">>,
          <<"u734e", "u91d1">>,
          <<"nian", "u7d42">>>>],
      \* 投資: 股 基金 利息 股利 配息 投資收益
      [name |-> <<"u6295", "u8cc7">>,
       keywords |-> <<
          <<"u80a1">>,
          <<"u57fa", "u91d1">>,
          <<"u5229", "u606f">>,
          <<"u80a1", "u5229">>,
          <<"u914d", "u606f">>,
          <<"u6295", "u8cc7", "shou", "u76ca">>>>],
      \* 其他收入: 收入 入帳 轉帳收入 紅包 禮金 中獎
      [name |-> <<"u5176", "u4ed6", "shou", "ru">>,
       keywords |-> <<
          <<"shou", "ru">>,
          <<"ru", "u5e33">>,
          <<"u8f49", "u5e33", "shou", "ru">>,
          <<"u7d05", "u5305">>,
          <<"u79ae", "u91d1">>,
          <<"u4e2d", "u734e">>>>]
    >>

\* INCOME_CATEGORIES = {薪資, 投資, 其他收入}
INCOME_CATEGORIES ==
    {<<"xin", "u8cc7">>,
     <<"u6295", "u8cc7">>,
     <<"u5176", "u4ed6", "shou", "ru">>}

\* CHINESE_NUMS of NLPParser
NLPParser_CHINESE_NUMS ==
    [c \in {"ling", "yi", "er", "san", "si", "wu", "liu", "qi", "ba", "jiu",
            "shi", "bai", "qian", "wan", "liang", "liang_s"} |->
        CASE c = "ling" -> 0 [] c = "yi" -> 1 [] c = "er" -> 2 [] c = "san" -> 3
          [] c = "si" -> 4 [] c = "wu" -> 5 [] c = "liu" -> 6 [] c = "qi" -> 7
          [] c = "ba" -> 8 [] c = "jiu" -> 9 [] c = "shi" -> 10 [] c = "bai" -> 100
          [] c = "qian" -> 1000 [] c = "wan" -> 10000
          [] c = "liang" -> 2 [] c = "liang_s" -> 2]

\* a float with a finite decimal expansion: mant / 10^exp, with mant not a
\* multiple of 10 unless exp = 0, so that equal numbers are equal records
RECURSIVE Normalize(_, _)
Normalize(mant, exp) ==
    IF exp > 0 /\ mant % 10 = 0 THEN Normalize(mant \div 10, exp - 1)
    ELSE [mant |-> mant, exp |-> exp]

\* Python: float(s) for s matching \d+(\.\d+)?
FloatOf(s) ==
    LET dots == {k \in 1..Len(s) : s[k] = "."}
    IN  IF dots = {} THEN Normalize(ParseInt(s), 0)
        ELSE LET p == Min(dots)
                 frac == SubSeq(s, p + 1, Len(s))
             IN  Normalize(ParseInt(SubSeq(s, 1, p - 1) \o frac), Len(frac))

\* a test for None only: 0.0 counts as an amount
Truthy_NotNone(x) == x # None

\* Python: bool(x) for a float or None
Truthy(x) == x # None /\ x.mant # 0

\* one step of the loop of _chinese_to_number; st = [result, temp]
ChineseStep(st, char) ==
    IF char \notin DOMAIN NLPParser_CHINESE_NUMS THEN st
    ELSE LET num == NLPParser_CHINESE_NUMS[char]
         IN  IF num >= 10
             THEN LET temp1 == (IF st.temp = 0 THEN 1 ELSE st.temp) * num
                  IN  IF num >= 10000
                      THEN [result |-> st.result + temp1, temp |-> 0]
                      ELSE [result |-> st.result, temp |-> temp1]
             ELSE [result |-> st.result,
                   temp |-> IF st.temp >= 10 THEN st.temp * 10 + num ELSE num]

RECURSIVE ChineseFold(_, _)
ChineseFold(s, st) ==
    IF s = <<>> THEN st ELSE ChineseFold(Tail(s), ChineseStep(st, Head(s)))

\* NLPParser._chinese_to_number(text), the value of the float it returns
NLPParser_chinese_to_number(s) ==
    LET st == ChineseFold(s, [result |-> 0, temp |-> 0])
    IN  st.result + st.temp

\* a number pattern that takes one digit only
NumberEnd_OneDigit(t, i) ==
    IF i <= Len(t) /\ t[i] \in Digits THEN i ELSE i - 1

\* index of the last character of a greedy  \d+(?:\.\d+)?  from i, i - 1
\* when t[i] is no digit
NumberEnd(t, i) ==
    LET j == RunEnd(t, i, Digits)
    IN  IF j >= i /\ j + 2 <= Len(t) /\ t[j + 1] = "." /\ t[j + 2] \in Digits
        THEN RunEnd(t, j + 2, Digits) ELSE j

CurrencyUnits == {"yuan", "kuai", "money"}

\* the index after a greedy \s* from i
SkipSpace(t, i) == RunEnd(t, i, Whitespace) + 1

\* the first digit run, whatever follows it
SearchNumberUnit_AnyNumber(t) == Leftmost({i \in 1..Len(t) : t[i] \in Digits})

\* re.search(r'(\d+(?:\.\d+)?)\s*[元塊錢]', t): start of the match, 0 for none
SearchNumberUnit(t) ==
    Leftmost({i \in 1..Len(t) :
        LET k == SkipSpace(t, NumberEnd(t, i) + 1)
        IN  NumberEnd(t, i) >= i /\ k <= Len(t) /\ t[k] \in CurrencyUnits})

\* re.search(r'\$\s*(\d+(?:\.\d+)?)', t): start of group 1, 0 for none
SearchDollarNumber(t) ==
    LET i == Leftmost({k \in 1..Len(t) :
                 t[k] = "$" /\ NumberEnd(t, SkipSpace(t, k + 1)) >= SkipSpace(t, k + 1)})
    IN  IF i = 0 THEN 0 ELSE SkipSpace(t, i + 1)

\* NT\$?\s* at i, case-insensitive: the index where the number must start,
\* 0 when NT is not at i
AfterNT(t, i) ==
    IF i + 1 <= Len(t) /\ t[i] \in {"N", "n"} /\ t[i + 1] \in {"T", "t"}
    THEN LET a == IF i + 2 <= Len(t) /\ t[i + 2] = "$"
                     /\ NumberEnd(t, SkipSpace(t, i + 3)) >= SkipSpace(t, i + 3)
                  THEN i + 3 ELSE i + 2
         IN  SkipSpace(t, a)
    ELSE 0

\* re.search(r'NT\$?\s*(\d+(?:\.\d+)?)', t, re.IGNORECASE): start of group 1
SearchNTNumber(t) ==
    LET i == Leftmost({k \in 1..Len(t) :
                 AfterNT(t, k) # 0 /\ NumberEnd(t, AfterNT(t, k)) >= AfterNT(t, k)})
    IN  IF i = 0 THEN 0 ELSE AfterNT(t, i)

\* re.search(r'(\d+(?:\.\d+)?)\s*(?:元|塊|錢|$)', t): start of the match
SearchNumberUnitOrEnd(t) ==
    Leftmost({i \in 1..Len(t) :
        LET k == SkipSpace(t, NumberEnd(t, i) + 1)
        IN  NumberEnd(t, i) >= i /\ (k = Len(t) + 1 \/ t[k] \in CurrencyUnits)})

\* re.search(r'(\d+(?:\.\d+)?)', t): start of the match
SearchNumber(t) == Leftmost({i \in 1..Len(t) : t[i] \in Digits})

\* NLPParser._extract_chinese_amount(text): the value, or None
NLPParser_extract_chinese_amount(t) ==
    LET S == DOMAIN NLPParser_CHINESE_NUMS
        i == Leftmost({k \in 1..Len(t) :
                 LET u == SkipSpace(t, RunEnd(t, k, S) + 1)
                 IN  RunEnd(t, k, S) >= k /\ u <= Len(t) /\ t[u] \in CurrencyUnits})
    IN  IF i = 0 THEN None
        ELSE Normalize(NLPParser_chinese_to_number(SubSeq(t, i, RunEnd(t, i, S))), 0)

\* NLPParser._extract_amount(text): a float or None
NLPParser_extract_amount(t) ==
    LET num(i) == FloatOf(SubSeq(t, i, NumberEnd(t, i)))
        p1 == SearchNumberUnit(t)
        p2 == SearchDollarNumber(t)
        p3 == SearchNTNumber(t)
        p4 == SearchNumberUnitOrEnd(t)
        chinese_amount == NLPParser_extract_chinese_amount(t)
        p5 == SearchNumber(t)
    IN  IF p1 # 0 THEN num(p1)
        ELSE IF p2 # 0 THEN num(p2)
        ELSE IF p3 # 0 THEN num(p3)
        ELSE IF p4 # 0 THEN num(p4)
        ELSE IF Truthy(chinese_amount) THEN chinese_amount
        ELSE IF p5 # 0 THEN num(p5)
        ELSE None

\* jieba.cut(text).  The segmenter cuts the text into runs of the characters
\* [一-鿕a-zA-Z0-9+#&\._%\-] and yields every other character as a
\* token of its own; how it cuts a run into tokens depends on its dictionary
\* and is left open: any consecutive non-empty pieces.
SingleTokenChars == {" ", "$", "/"}

RECURSIVE Segmentations(_)
Segmentations(t) ==
    IF t = <<>> THEN {<<>>}
    ELSE LET last == IF t[1] \in SingleTokenChars THEN 1
                     ELSE Min({k \in 1..Len(t) :
                                  k = Len(t) \/ t[k + 1] \in SingleTokenChars})
         IN  UNION {{<<SubSeq(t, 1, k)>> \o rest :
                        rest \in Segmentations(SubSeq(t, k + 1, Len(t)))} :
                    k \in 1..last}

\* the score of one category in _extract_category
CategoryScore(words, keywords) ==
    Cardinality({p \in (1..Len(words)) \X (1..Len(keywords)) :
        \/ Contains(words[p[1]], keywords[p[2]])
        \/ Contains(keywords[p[2]], words[p[1]])})

\* the last category of the greatest score instead of the first
NLPParser_extract_category_LastBest(words) ==
    LET scores == [c \in 1..Len(CATEGORY_KEYWORDS) |->
                      CategoryScore(words, CATEGORY_KEYWORDS[c].keywords)]
        best == Max({scores[c] : c \in DOMAIN scores})
    IN  IF best = 0 THEN None
        ELSE CATEGORY_KEYWORDS[Max({c \in DOMAIN scores : scores[c] = best})].name

\* NLPParser._extract_category(text) on the tokens of the text: max(scores,
\* key=scores.get) returns the first key of the greatest score
NLPParser_extract_category(words) ==
    LET scores == [c \in 1..Len(CATEGORY_KEYWORDS) |->
                      CategoryScore(words, CATEGORY_KEYWORDS[c].keywords)]
        best == Max({scores[c] : c \in DOMAIN scores})
    IN  IF best = 0 THEN None
        ELSE CATEGORY_KEYWORDS[Min({c \in DOMAIN scores : scores[c] = best})].name


\* the end of a match of one of the amount patterns of _clean_description
\* at index i, 0 when the pattern does not match there
AmountMatchEnd(kind, t, i) ==
    CASE kind = "unit" ->
           LET k == SkipSpace(t, NumberEnd(t, i) + 1)
           IN  IF NumberEnd(t, i) >= i /\ k <= Len(t) /\ t[k] \in CurrencyUnits
               THEN k ELSE 0
      [] kind = "dollar" ->
           IF t[i] = "$" /\ NumberEnd(t, SkipSpace(t, i + 1)) >= SkipSpace(t, i + 1)
           THEN NumberEnd(t, SkipSpace(t, i + 1)) ELSE 0
      [] kind = "nt" ->
           IF AfterNT(t, i) # 0 /\ NumberEnd(t, AfterNT(t, i)) >= AfterNT(t, i)
           THEN NumberEnd(t, AfterNT(t, i)) ELSE 0

\* re.sub(pattern, '', t): the matches are found from left to right, each
\* search starting where the previous match ended
RECURSIVE RemoveAmounts(_, _, _)
RemoveAmounts(kind, t, i) ==
    IF i > Len(t) THEN <<>>
    ELSE LET e == AmountMatchEnd(kind, t, i)
         IN  IF e # 0 THEN RemoveAmounts(kind, t, e + 1)
             ELSE <<t[i]>> \o RemoveAmounts(kind, t, i + 1)

\* Python: t.replace(kw, '')
RECURSIVE RemoveKeyword(_, _, _)
RemoveKeyword(kw, t, i) ==
    IF i > Len(t) THEN <<>>
    ELSE IF StartsAt(t, i, kw) THEN RemoveKeyword(kw, t, i + Len(kw))
    ELSE <<t[i]>> \o RemoveKeyword(kw, t, i + 1)

\* date_keywords of _clean_description: 今天 昨天 前天 今日 昨日 上週 這週 下週 上個月 這個月
date_keywords ==
    <<<<"jin", "tian">>,
      <<"zuo", "tian">>,
      <<"before", "tian">>,
      <<"jin", "ri">>,
      <<"zuo", "ri">>,
      <<"shang", "zhou">>,
      <<"zhe", "zhou">>,
      <<"xia", "zhou">>,
      <<"shang", "ge", "yue">>,
      <<"zhe", "ge", "yue">>>>

RECURSIVE RemoveKeywords(_, _)
RemoveKeywords(kws, t) ==
    IF kws = <<>> THEN t
    ELSE RemoveKeywords(Tail(kws), RemoveKeyword(Head(kws), t, 1))

\* Python: ' '.join(t.split())
RECURSIVE CollapseSpace(_, _)
CollapseSpace(t, i) ==
    IF i > Len(t) THEN <<>>
    ELSE IF t[i] \in Whitespace
         THEN IF i = 1 \/ SkipSpace(t, i) > Len(t) THEN CollapseSpace(t, SkipSpace(t, i))
              ELSE <<" ">> \o CollapseSpace(t, SkipSpace(t, i))
    ELSE <<t[i]>> \o CollapseSpace(t, i + 1)

\* NLPParser._clean_description(text)
NLPParser_clean_description(t) ==
    LET t1 == RemoveAmounts("unit", t, 1)
        t2 == RemoveAmounts("dollar", t1, 1)
        t3 == RemoveAmounts("nt", t2, 1)
        t4 == RemoveKeywords(date_keywords, t3)
    IN  Strip(CollapseSpace(t4, 1))

\* parse without the default category of lines 91-94
NLPParser_parse_NoDefault(t, td, words) ==
    LET amount == NLPParser_extract_amount(t)
        parsed_date == DateParser_parse(t, td)
        category == NLPParser_extract_category(words)
    IN  IF IsRaise(parsed_date) THEN parsed_date
        ELSE [amount |-> IF Truthy(amount) THEN amount ELSE None,
              type |-> IF category # None /\ category \in INCOME_CATEGORIES
                       THEN "income" ELSE "expense",
              category |-> category,
              date |-> IF parsed_date # None THEN parsed_date ELSE td,
              description |-> NLPParser_clean_description(t),
              confidence |-> (IF Truthy(amount) THEN 4 ELSE 0)
                             + (IF parsed_date # None THEN 1 ELSE 0)
                             + (IF category # None THEN 4 ELSE 0),
              raw_text |-> t]

\* the default category is 其他 whatever the text
default_category_Other(t) == <<"u5176", "u4ed6">>

\* the default category of parse (line 93): 其他收入 when the text contains
\* 收入, else 其他
default_category(t) ==
    IF Contains(t, <<"shou", "ru">>) THEN <<"u5176", "u4ed6", "shou", "ru">>
    ELSE <<"u5176", "u4ed6">>

\* a confidence that counts the date whether it was parsed or not
parse_confidence_DateAlways(amount, parsed_date, category) ==
    (IF Truthy(amount) THEN 4 ELSE 0) + 1 + (IF category # None THEN 4 ELSE 1)

\* the confidence parse adds up (lines 75-94), in tenths
parse_confidence(amount, parsed_date, category) ==
    (IF Truthy(amount) THEN 4 ELSE 0)
        + (IF parsed_date # None THEN 1 ELSE 0)
        + (IF category # None THEN 4 ELSE 1)

\* NLPParser.parse(text) with date.today() = td and jieba.cut(text) = words:
\* the dict it returns, or the exception that leaves the call.  confidence
\* is counted in tenths.
NLPParser_parse(t, td, words) ==
    LET amount == NLPParser_extract_amount(t)
        parsed_date == DateParser_parse(t, td)
        category == NLPParser_extract_category(words)
    IN  IF IsRaise(parsed_date) THEN parsed_date
        ELSE [amount |-> IF Truthy(amount) THEN amount ELSE None,
              type |-> IF category # None /\ category \in INCOME_CATEGORIES
                       THEN "income" ELSE "expense",
              category |-> IF category # None THEN category ELSE default_category(t),
              date |-> IF parsed_date # None THEN parsed_date ELSE td,
              description |-> NLPParser_clean_description(t),
              confidence |-> parse_confidence(amount, parsed_date, category),
              raw_text |-> t]


\* a month count that reads numerals of several characters, as
\* DateParser._parse_chinese_number does
NLPParser_parse_chinese_number_Units(s) == DateParser_parse_chinese_number(s)

\* NLPParser._parse_chinese_number(text)
NLPParser_parse_chinese_number(s) ==
    IF IsDigitString(s) THEN ParseInt(s)
    ELSE IF Len(s) = 1
         THEN (IF s[1] \in SimpleChineseDigits THEN DateParser_CHINESE_NUMS[s[1]] ELSE 1)
    ELSE 3

\* re.search(r'近?(\d+|[一二三四五六七八九十]+)\s*個?月', t)
MonthsAt(t, i, S) ==
    LET j == RunEnd(t, i, S)
        k == SkipSpace(t, j + 1)
        m == IF k <= Len(t) /\ t[k] = "ge" THEN k + 1 ELSE k
    IN  j >= i /\ m <= Len(t) /\ t[m] = "yue"

SearchMonths(t) ==
    LET numberAt(k) == MonthsAt(t, k, Digits) \/ MonthsAt(t, k, SimpleChineseDigits)
        i == Leftmost({k \in 1..Len(t) :
                 numberAt(k) \/ (t[k] = "near" /\ numberAt(k + 1))})
        d == IF i # 0 /\ numberAt(i) THEN i ELSE i + 1
    IN  IF i = 0 THEN NoMatch
        ELSE [start |-> i,
              g1 |-> IF MonthsAt(t, d, Digits) THEN SubSeq(t, d, RunEnd(t, d, Digits))
                     ELSE SubSeq(t, d, RunEnd(t, d, SimpleChineseDigits))]

\* the loop of parse_query: k times, the first day of the month before
RECURSIVE StepBackMonths(_, _)
StepBackMonths(d, k) ==
    IF k <= 0 THEN d
    ELSE LET p == AddDays(d, -1)
         IN  IF IsRaise(p) THEN p ELSE StepBackMonths(ReplaceDay(p, 1), k - 1)

\* the same loop; with more steps than there are months since date.min the
\* subtraction at date.min raises
MonthsBack(d, k) ==
    IF k > (d.year - 1) * 12 + (d.month - 1) THEN Raise("OverflowError")
    ELSE StepBackMonths(d, k)

\* timedelta read from the module-level import wherever it is used
parse_query_timedelta_global(line) == TRUE

\* whether the name timedelta is bound when the given line of parse_query
\* runs.  The import statement on line 149 binds timedelta in the body of
\* parse_query, which makes the name local to the whole function: the
\* module-level import on line 295 is not what lines 132 and 136 read.
parse_query_timedelta_bound(line) == line > 149

\* the period rules of parse_query (lines 127-144): the fields they set, or
\* the exception raised
parse_query_period(t, td, base) ==
    IF Contains(t, <<"jin", "tian">>) \/ Contains(t, <<"jin", "ri">>)
    THEN [base EXCEPT !.period = "day", !.start_date = td]
    ELSE IF Contains(t, <<"zhe", "zhou">>) \/ Contains(t, <<"ben", "zhou">>)
    THEN IF ~parse_query_timedelta_bound(132) THEN Raise("UnboundLocalError")
         ELSE LET s == AddDays(td, -Weekday(td))
              IN  IF IsRaise(s) THEN s
                  ELSE [base EXCEPT !.period = "week", !.start_date = s]
    ELSE IF Contains(t, <<"shang", "ge", "yue">>) \/ Contains(t, <<"shang", "yue">>)
    THEN IF ~parse_query_timedelta_bound(136) THEN Raise("UnboundLocalError")
         ELSE LET last_month_end == AddDays(ReplaceDay(td, 1), -1)
              IN  IF IsRaise(last_month_end) THEN last_month_end
                  ELSE [base EXCEPT !.period = "month",
                                    !.start_date = ReplaceDay(last_month_end, 1),
                                    !.end_date = last_month_end]
    ELSE IF Contains(t, <<"zhe", "ge", "yue">>) \/ Contains(t, <<"ben", "yue">>)
    THEN [base EXCEPT !.period = "month", !.start_date = ReplaceDay(td, 1)]
    ELSE IF Contains(t, <<"jin", "nian">>)
    THEN [base EXCEPT !.period = "year", !.start_date = Date(td.year, 1, 1)]
    ELSE base

\* the last category name of the table that occurs in the text
parse_query_category_Last(t) ==
    LET found == {c \in 1..Len(CATEGORY_KEYWORDS) : Contains(t, CATEGORY_KEYWORDS[c].name)}
    IN  IF found = {} THEN 0 ELSE Max(found)

\* the category rule of parse_query: the first category name, in the order
\* of CATEGORY_KEYWORDS, that occurs in the text; 0 when none does
parse_query_category(t) ==
    Leftmost({c \in 1..Len(CATEGORY_KEYWORDS) : Contains(t, CATEGORY_KEYWORDS[c].name)})

\* NLPParser.parse_query(text) with date.today() = td
NLPParser_parse_query(t, td) ==
    LET base == [query_type |-> "summary", category |-> None, period |-> "month",
                 start_date |-> ReplaceDay(td, 1), end_date |-> td,
                 chart_type |-> "None"]
        r1 == parse_query_period(t, td, base)
        match == SearchMonths(t)
        start == IF match.start = 0 THEN r1.start_date
                 ELSE MonthsBack(ReplaceDay(td, 1),
                                 NLPParser_parse_chinese_number(match.g1) - 1)
        c == parse_query_category(t)
    IN  IF IsRaise(r1) THEN r1
        ELSE IF IsRaise(start) THEN start
        ELSE [r1 EXCEPT
                !.start_date = start,
                !.category = IF c # 0 THEN CATEGORY_KEYWORDS[c].name ELSE None,
                !.chart_type =
                    IF Contains(t, <<"u5713", "u9905", "tu">>) \/ Contains(t, <<"u6bd4", "u4f8b">>) THEN "pie"
                    ELSE IF Contains(t, <<"u6298", "u7dda", "tu">>) \/ Contains(t, <<"qu", "shi_t">>) THEN "line"
                    ELSE IF Contains(t, <<"u9577", "u689d", "tu">>) \/ Contains(t, <<"u67f1", "u72c0", "tu">>) THEN "bar"
                    ELSE "None",
                !.query_type =
                    IF Contains(t, <<"qu", "shi_t">>) \/ Contains(t, <<"u8b8a", "u5316">>) THEN "trend"
                    ELSE IF Contains(t, <<"u6bd4", "u8f03">>) \/ Contains(t, <<"u5c0d", "u6bd4">>) THEN "compare"
                    ELSE IF c # 0 THEN "category"
                    ELSE "summary"]

(***************************************************************************)
(* backend/routers/chat.py                                                 *)
(***************************************************************************)
\* query_keywords of _detect_intent: 花了多少 多少錢 查詢 統計 報告 報表 趨勢 分析圖
query_keywords ==
    <<<<"hua", "le", "duo", "shao">>,
      <<"duo", "shao", "money">>,
      <<"cha", "xun">>,
      <<"tong", "ji">>,
      <<"bao", "gao">>,
      <<"bao", "biao">>,
      <<"qu", "shi_t">>,
      <<"fen", "xi", "tu">>>>

\* analysis_keywords of _detect_intent: 是不是 應該 建議 幫我 為什麼 怎麼 如何
analysis_keywords ==
    <<<<"is", "bu", "is">>,
      <<"ying", "gai">>,
      <<"jian", "yi_s">>,
      <<"bang", "wo">>,
      <<"wei", "shen", "me">>,
      <<"zen", "me">>,
      <<"ru_as", "he">>>>

\* _detect_intent with the digit rule first
detect_intent_DigitsFirst(t) ==
    IF \E i \in 1..Len(t) : t[i] \in Digits THEN "record"
    ELSE IF \E k \in 1..Len(query_keywords) : Contains(t, query_keywords[k]) THEN "query"
    ELSE "analysis"

\* _detect_intent without the digit rule
detect_intent_NoDigitRule(t) ==
    IF \E k \in 1..Len(query_keywords) : Contains(t, query_keywords[k]) THEN "query"
    ELSE "analysis"

\* _detect_intent falling back to "record", as the last branch of
\* process_message expects
detect_intent_RecordByDefault(t) ==
    IF \E k \in 1..Len(query_keywords) : Contains(t, query_keywords[k]) THEN "query"
    ELSE IF \E k \in 1..Len(analysis_keywords) : Contains(t, analysis_keywords[k])
         THEN "analysis"
    ELSE "record"

\* _detect_intent(text)
detect_intent(t) ==
    IF \E k \in 1..Len(query_keywords) : Contains(t, query_keywords[k]) THEN "query"
    ELSE IF \E k \in 1..Len(analysis_keywords) : Contains(t, analysis_keywords[k])
         THEN "analysis"
    ELSE IF \E i \in 1..Len(t) : t[i] \in Digits THEN "record"
    ELSE "analysis"

\* the rows _init_default_categories adds to an empty categories table, in
\* order: 餐飲 交通 娛樂 購物 醫療 居住 教育 其他, then 薪資 投資 其他收入.
\* A row is [id, name, type]; the icon is left out, the handlers only print it
DefaultCategories ==
    <<[id |-> 1, name |-> <<"can", "yin">>, type |-> "expense"],
      [id |-> 2, name |-> <<"u4ea4", "u901a">>, type |-> "expense"],
      [id |-> 3, name |-> <<"u5a1b", "u6a02">>, type |-> "expense"],
      [id |-> 4, name |-> <<"u8cfc", "u7269">>, type |-> "expense"],
      [id |-> 5, name |-> <<"u91ab", "u7642">>, type |-> "expense"],
      [id |-> 6, name |-> <<"u5c45", "u4f4f">>, type |-> "expense"],
      [id |-> 7, name |-> <<"u6559", "u80b2">>, type |-> "expense"],
      [id |-> 8, name |-> <<"u5176", "u4ed6">>, type |-> "expense"],
      [id |-> 9, name |-> <<"xin", "u8cc7">>, type |-> "income"],
      [id |-> 10, name |-> <<"u6295", "u8cc7">>, type |-> "income"],
      [id |-> 11, name |-> <<"u5176", "u4ed6", "shou", "ru">>, type |-> "income"]>>

\* db.query(Category).filter(Category.name == name): name is unique
CategoryByName(categories, name) ==
    {categories[i] : i \in {j \in 1..Len(categories) : categories[j].name = name}}

\* db.query(Category).filter(Category.type == type_): the rows .first() can
\* give; the query has no ORDER BY, so any row of the type can come first
CategoryByType(categories, type_) ==
    {categories[i] : i \in {j \in 1..Len(categories) : categories[j].type = type_}}

\* the category lookup of _handle_record: the parsed name, else 其他, else a
\* row of the parsed type; empty when "not category"
FindCategory(categories, parsed) ==
    IF CategoryByName(categories, parsed.category) # {}
    THEN CategoryByName(categories, parsed.category)
    ELSE IF CategoryByName(categories, <<"u5176", "u4ed6">>) # {}
         THEN CategoryByName(categories, <<"u5176", "u4ed6">>)
    ELSE CategoryByType(categories, parsed.type)

\* ChatResponse(message, type, data): the message is written as a tag, the
\* texts being constants (請輸入訊息, 抱歉，我無法識別金額 ..., 系統錯誤：找不到類別)
ChatResponse(message, type_, data) ==
    [message |-> message, type |-> type_, data |-> data]

\* _handle_record after NLPParser.parse gave parsed: the responses it can
\* give, each with the database it leaves.  The id of the new row is the
\* next one of the table
record_reply(parsed, source, d) ==
    LET row(c) == [id |-> Len(d.transactions) + 1,
                   amount |-> parsed.amount,
                   type |-> parsed.type,
                   category_id |-> c.id,
                   date |-> parsed.date,
                   description |-> parsed.description,
                   source |-> source]
    IN  IF IsRaise(parsed) THEN {[response |-> parsed, db |-> d]}
        ELSE IF ~Truthy(parsed.amount)
             THEN {[response |-> ChatResponse("no_amount", "error", None), db |-> d]}
        ELSE IF FindCategory(d.categories, parsed) = {}
             THEN {[response |-> ChatResponse("no_category", "error", None), db |-> d]}
        ELSE {[response |-> ChatResponse("recorded", "confirmation", row(c)),
               db |-> [d EXCEPT !.transactions = Append(@, row(c))]] :
                 c \in FindCategory(d.categories, parsed)}

\* _handle_record(text, source, db) with date.today() = td and jieba.cut
\* giving words
handle_record(t, td, words, source, d) ==
    record_reply(NLPParser_parse(t, td, words), source, d)

\* Python: d <= e for two dates
NotAfter(d, e) ==
    \/ d.year < e.year
    \/ d.year = e.year /\ d.month < e.month
    \/ d.year = e.year /\ d.month = e.month /\ d.day <= e.day

\* _handle_query after NLPParser.parse_query gave query: the data of the
\* response is the number of transactions of the period, of the category
\* when the query names one that has a row
query_reply(query, d) ==
    LET named == IF query.category = None THEN {}
                 ELSE CategoryByName(d.categories, query.category)
        q == {i \in 1..Len(d.transactions) :
                 /\ NotAfter(query.start_date, d.transactions[i].date)
                 /\ NotAfter(d.transactions[i].date, query.end_date)
                 /\ \A c \in named : d.transactions[i].category_id = c.id}
    IN  IF IsRaise(query) THEN query
        ELSE ChatResponse("summary", "query_result",
                          [count |-> Cardinality(q), period |-> query.period,
                           chart_type |-> query.chart_type])

\* _handle_query(text, db) with date.today() = td; it reads the database only
handle_query(t, td, d) == query_reply(NLPParser_parse_query(t, td), d)

\* _handle_analysis(text, db): the reply is AIAnalyzer's; it reads the
\* database only
handle_analysis(t, d) == ChatResponse("reply", "analysis", None)


(***************************************************************************)
(* Inputs                                                                  *)
(***************************************************************************)
\* the decimal digits of n
RECURSIVE Arabic(_)
Arabic(n) ==
    LET d == <<"0", "1", "2", "3", "4", "5", "6", "7", "8", "9">>
    IN  IF n < 10 THEN <<d[n + 1]>> ELSE Arabic(n \div 10) \o <<d[(n % 10) + 1]>>

ChineseDigit(d) == <<"ling", "yi", "er", "san", "si", "wu", "liu", "qi", "ba", "jiu">>[d + 1]

\* the Chinese numeral of n in 1..99999: each non-zero digit with its
\* magnitude, one 零 for a gap of zeros, 十 for 一十 in 10..19, and two for
\* the digit 2 before 百, 千 and 萬 (二 or 兩)
RECURSIVE NumeralFrom(_, _, _, _)
NumeralFrom(n, pos, started, two) ==
    LET mag == <<1, 10, 100, 1000, 10000>>[pos]
        magChar == <<"", "shi", "bai", "qian", "wan">>[pos]
        d == (n \div mag) % 10
        rest == n % mag
        digit == IF d = 2 /\ pos >= 3 THEN two ELSE ChineseDigit(d)
        here == IF d = 0 THEN (IF started /\ rest # 0 /\ (rest \div (mag \div 10)) # 0
                               THEN <<"ling">> ELSE <<>>)
                ELSE IF pos = 1 THEN <<digit>>
                ELSE IF pos = 2 /\ d = 1 /\ ~started THEN <<"shi">>
                ELSE <<digit, magChar>>
    IN  IF pos = 1 THEN here
        ELSE here \o NumeralFrom(rest, pos - 1, started \/ d # 0, two)

ChineseNumeral(n, two) == NumeralFrom(n, 5, FALSE, two)

\* the numerals of the values 1..MaxNumeral and of 一萬 .. 九萬
NumeralValues == (1..MaxNumeral) \cup {10000 * k : k \in 1..9}

NumeralTexts ==
    {ChineseNumeral(n, two) : n \in NumeralValues, two \in {"er", "liang"}}

\* NumDays consecutive days from first
Days(first, NumDays) == {FromOrdinal(ToOrdinal(first) + k) : k \in 0..(NumDays - 1)}

\* "N天前" with N in digits and as a numeral, alone and after a description
DaysAgoTextsOf(n) ==
    {p \o num \o <<"tian", "before">> : p \in {<<>>, <<"noon", "can">>},
                           num \in {Arabic(n), ChineseNumeral(n, "er")}}

DaysAgoTexts == UNION {DaysAgoTextsOf(n) : n \in 1..MaxDaysAgo}

\* "上個月N", "上個月N號", "上個月N日", and "午餐上個月N號 120元"
LastMonthTextsOf(n) ==
    {<<"shang", "ge", "yue">> \o Arabic(n) \o s : s \in {<<>>, <<"hao">>, <<"ri">>}}
        \cup {<<"noon", "can", "shang", "ge", "yue">> \o Arabic(n) \o <<"hao", " ", "1", "2", "0", "yuan">>}

LastMonthTexts == UNION {LastMonthTextsOf(n) : n \in 0..MaxDayNumber}

\* the literal markers, the weekday phrases and the absolute dates
MarkerTexts ==
    {<<"jin", "tian">>, <<"jin", "ri">>, <<"zuo", "tian">>, <<"zuo", "ri">>, <<"before", "tian">>, <<"da", "before", "tian">>, <<"ming", "tian">>, <<"ming", "ri">>,
     <<"jin", "tian", "3", "tian", "before">>, <<"zuo", "tian", "shang", "ge", "yue", "5", "hao">>}

WeekdayTexts ==
    {<<w>> \o <<"zhou">> \o <<d>> : w \in {"shang", "zhe", "xia"}, d \in DOMAIN WEEKDAY_MAP}

ThisMonthTexts ==
    {p \o Arabic(n) \o s : p \in {<<>>, <<"zhe", "ge", "yue">>}, n \in 0..MaxDayNumber,
                          s \in {<<"hao">>, <<"ri">>}}

AbsoluteTexts ==
    {Arabic(m) \o <<s>> \o Arabic(d) : m \in {1, 2, 12, 13}, s \in {"/", "-"},
                                       d \in {0, 1, 29, 30, 31}}
      \cup {<<"2", "0", "2", "4", "nian", "1", "2", "yue", "2", "0", "ri">>, <<"2", "0", "2", "4", "/", "1", "2", "/", "2", "0">>, <<"2", "0", "2", "4", "-", "1", "2", "-", "2", "0">>, <<"2", "0", "2", "3", "nian", "2", "yue", "2", "9", "ri">>,
            <<"2", "0", "2", "4", "nian", "2", "yue", "2", "9", "ri">>, <<"2", "0", "1", "2", "-", "1", "2", "-", "1", "2">>, <<"2", "0", "2", "4", "nian", "1", "3", "yue", "1", "ri">>, <<"0", "0", "0", "0", "-", "1", "-", "1">>}

\* what may stand before and after 今天 in a text: other markers, a day
\* count, a weekday, a day of last month, a day number, absolute dates
TodayContexts ==
    {<<>>, <<" ">>, <<"zuo", "tian">>, <<"da", "before", "tian">>, <<"ming", "ri">>,
     <<"3", "tian", "before">>, <<"8", "0", "0", "0", "0", "0", "tian", "before">>,
     <<"shang", "zhou", "wu">>, <<"shang", "ge", "yue", "3", "1", "hao">>, <<"3", "1", "hao">>,
     <<"1", "2", "/", "2", "5">>, <<"2", "0", "2", "4", "nian", "1", "2", "yue", "2", "0", "ri">>}

TodayTexts == {p \o <<"jin", "tian">> \o s : p \in TodayContexts, s \in TodayContexts}

OtherDateTexts == {<<>>, <<"noon", "can">>, <<"noon", "can", " ", "1", "2", "0", " ", "yuan">>, <<"8", "0", "0", "0", "0", "0", "tian", "before">>, <<"shi", "shi", "tian", "before">>, <<"3", " ", "tian", "before">>}

DateTexts ==
    DaysAgoTexts \cup LastMonthTexts \cup MarkerTexts \cup WeekdayTexts
        \cup ThisMonthTexts \cup AbsoluteTexts \cup OtherDateTexts
        \cup TodayTexts

\* record commands: a description, an amount, a date phrase
RecordDescriptions ==
    {<<>>, <<"noon", "can">>, <<"xin", "shui">>, <<"shou", "ru">>, <<"hui", "shou", "ru", "kou">>}

RecordAmounts ==
    {<<>>, <<" ", "1", "2", "0", " ", "yuan">>, <<" ", "5", "0", "yuan">>, <<" ", "$", "1", "2", "0">>, <<" ", "0", "yuan">>, <<" ", "wu", "bai", "yuan">>}

RecordDatePhrases == {<<" ", "zuo", "tian">>, <<" ", "3", "tian", "before">>}

RecordTexts ==
    {d \o a \o w : d \in RecordDescriptions, a \in RecordAmounts,
                   w \in {<<>>} \cup RecordDatePhrases}
      \cup {<<"8", "0", "0", "0", "0", "0", "tian", "before">>, <<"noon", "can", "1", "2", "0", "yuan">>, <<"shang", "ge", "yue", "3", "1", "hao">>, <<"1", "2", "/", "2", "5", " ", "noon", "can">>,
            <<"ling", "yuan">>, <<" ", " ">>, <<"1", "2", "0", "jin", "tian", "yuan">>, <<"jin", "zuo", "tian", "tian">>}

\* queries: a period keyword, a month count, a category name, a kind keyword
QueryTexts ==
    {p \o m \o c \o k :
        p \in {<<>>, <<"jin", "tian">>, <<"jin", "ri">>, <<"zhe", "zhou">>, <<"ben", "zhou">>, <<"shang", "ge", "yue">>, <<"shang", "yue">>,
               <<"zhe", "ge", "yue">>, <<"ben", "yue">>, <<"jin", "nian">>},
        m \in {<<>>, <<"near", "3", "ge", "yue">>, <<"near", "san", "ge", "yue">>, <<"near", "shi", "er", "ge", "yue">>, <<"1", "ge", "yue">>, <<"near", "0", "ge", "yue">>,
               <<"near", "shi", "ge", "yue">>,
               <<"near", " ", "1", "2", " ", "yue">>, <<"near", "3", "0", "0", "0", "0", "ge", "yue">>},
        c \in {<<>>, <<"can", "yin">>, <<"u4ea4", "u901a">>},
        k \in {<<>>, <<"hua", "duo", "shao">>, <<"qu", "shi_t">>, <<"u6bd4", "u8f03", "u5713", "u9905", "tu">>}}

\* amounts: the digit runs of 0..MaxAmount and some with leading zeros,
\* before 元 and after $
DigitRunValue ==
    [d \in {Arabic(n) : n \in 0..MaxAmount} |->
        CHOOSE n \in 0..MaxAmount : d = Arabic(n)]
      @@ (<<"0", "0", "7">> :> 7) @@ (<<"0", "1", "2", "0">> :> 120) @@ (<<"0", "0">> :> 0)
      @@ (<<"9", "9", "9", "9", "9", "9", "9", "9", "9">> :> 999999999)

YuanTexts == {d \o <<"yuan">> : d \in DOMAIN DigitRunValue}

DollarTexts == {<<"$">> \o d : d \in DOMAIN DigitRunValue}

\* a Chinese numeral before a currency unit, with a bare digit run
\* somewhere else in the text
ChineseAndDigitsTexts ==
    {<<"3", "hao", "wu", "bai", "yuan">>, <<"wu", "bai", "yuan", "3", "hao">>, <<"wu", "bai", "yuan", " ", "3">>,
     <<"noon", "can", "3", "ge", "liang", "qian", "kuai">>, <<"wu", "bai", "money", "1", "2">>, <<"san", "shi", "wu", "yuan", "3", "hao">>}

\* a digit run with a currency marker, between bare digit runs: a quantity
\* or a date before it, a number or a day after it
MarkedAmounts ==
    {[text |-> <<"1", "2", "0", "yuan">>, value |-> 120],
     [text |-> <<"1", "2", "0", " ", "kuai">>, value |-> 120],
     [text |-> <<"5", "0", "money">>, value |-> 50],
     [text |-> <<"$", "1", "2", "0">>, value |-> 120],
     [text |-> <<"$", " ", "5", "0">>, value |-> 50],
     [text |-> <<"N", "T", "$", "1", "2", "0">>, value |-> 120]}

BareBefore == {<<>>, <<"3", "ge", "noon", "can">>, <<"1", "2", "/", "2", "5", " ", "noon", "can">>, <<"7", " ", "noon", "can", " ">>}

BareAfter == {<<>>, <<" ", "7">>, <<" ", "3", "hao">>, <<"noon", "can", "9", "9">>}

MarkedAmountCases ==
    {[text |-> b \o m.text \o a, value |-> m.value] :
        b \in BareBefore, m \in MarkedAmounts, a \in BareAfter}

OtherAmountTexts ==
    {<<>>, <<"noon", "can">>, <<"1", "2", "0">>, <<"noon", "can", " ", "1", "2", "0">>, <<"N", "T", "$", "1", "2", "0">>, <<"n", "t", " ", "5", "0">>,
     <<"1", ".", "5", "0", "yuan">>, <<"$", " ", "1", "2", ".", "5">>, <<"1", "2", "0", " ", "kuai">>, <<"ling", "yuan">>, <<"wu", "bai", "yuan">>,
     <<"3", "hao", " ", "1", "2", "0", "yuan">>, <<"1", "2", "0", "yuan", "$", "5", "0">>}

AmountTexts ==
    YuanTexts \cup DollarTexts \cup ChineseAndDigitsTexts \cup OtherAmountTexts
        \cup {c.text : c \in MarkedAmountCases}

\* texts for the classifier: no keyword, one category, several categories,
\* 買書 and 書買 with one match each for 購物 and 教育
CategoryTexts ==
    {<<>>, <<"kou">>, <<"noon", "can">>, <<"xin", "shui">>, <<"u8cb7", "u66f8">>, <<"u66f8", "u8cb7">>, <<"u66f8", " ", "u8cb7">>,
     <<"hui", "shou", "ru", "kou">>, <<"u66f8", "u8cb7", "noon", "can">>, <<"noon", "can", "u8cb7", "u66f8", "che">>,
     <<"xin", "shui", "u8cb7", "u66f8", "u5750", "che">>, <<"hui", "shou", "ru", "kou", "noon", "can">>,
     <<"u66f8", "u8cb7", " ", "che", " ", "xin", "shui">>}

\* queries for the kind rules: category names 餐飲 交通 娛樂, alone and in
\* pairs, before the kind keywords 趨勢 變化 比較 對比, alone and in pairs
QueryKindTexts ==
    {p \o c \o k :
        p \in {<<>>, <<"jin", "tian">>},
        c \in {<<>>, <<"can", "yin">>, <<"u4ea4", "u901a">>, <<"u4ea4", "u901a", "can", "yin">>, <<"u5a1b", "u6a02", "u4ea4", "u901a">>},
        k \in {<<>>, <<"qu", "shi_t">>, <<"u8b8a", "u5316">>, <<"u6bd4", "u8f03">>, <<"u5c0d", "u6bd4">>,
               <<"u6bd4", "u8f03", "qu", "shi_t">>, <<"u5c0d", "u6bd4", "u8b8a", "u5316">>, <<"qu", "shi_t", "u6bd4", "u8f03">>}}

\* chat messages: up to MaxIntentPieces of these pieces in a row
IntentPieces ==
    {<<"hua", "le", "duo", "shao">>, <<"duo", "shao", "money">>, <<"cha", "xun">>, <<"qu", "shi_t">>, <<"bang", "wo">>, <<"wei", "shen", "me">>, <<"ru_as", "he">>,
     <<"noon", "can">>, <<"1", "2", "0">>, <<"yuan">>, <<"zhe", "ge", "yue">>}

RECURSIVE Concatenations(_, _)
Concatenations(pieces, n) ==
    IF n = 0 THEN {<<>>}
    ELSE LET shorter == Concatenations(pieces, n - 1)
         IN  shorter \cup {s \o p : s \in shorter, p \in pieces}

IntentTexts == Concatenations(IntentPieces, MaxIntentPieces)

(***************************************************************************)
(* The calls.  op names the call made on (text, today), result is what it  *)
(* returned or raised, cut the tokens jieba.cut gave it.  history lists    *)
(* the calls made so far, memo the tokens jieba.cut gave for each text it  *)
(* has segmented.  The tables CATEGORY_KEYWORDS, INCOME_CATEGORIES,        *)
(* CHINESE_NUMS and WEEKDAY_MAP are read and never assigned by any         *)
(* statement of the three files, so they are definitions, not variables.   *)
(***************************************************************************)
InitCall(texts, days) ==
    /\ text \in texts
    /\ today \in days
    /\ cut = <<>>
    /\ op = "none"
    /\ result = None
    /\ history = <<>>
    /\ memo = [t \in {} |-> <<>>]
    /\ db = [categories |-> DefaultCategories, transactions |-> <<>>]

\* the call just made joins the calls made so far
Logged ==
    history' = Append(history, [op |-> op', text |-> text, result |-> result'])

\* jieba.cut(t) is a function of t and of jieba's dictionary, which no
\* statement of the repository changes: a text segmented before is cut as
\* before
JiebaCut_Unstable(t, m) == Segmentations(t)

JiebaCut(t, m) == IF t \in DOMAIN m THEN {m[t]} ELSE Segmentations(t)

\* NLPParser._chinese_to_number(text)
ChineseToNumber ==
    /\ op = "none"
    /\ op' = "_chinese_to_number"
    /\ result' = [value |-> NLPParser_chinese_to_number(text)]
    /\ Logged
    /\ UNCHANGED <<text, today, cut, memo, db>>

\* DateParser.parse(text)
Resolve ==
    /\ op = "none"
    /\ op' = "DateParser.parse"
    /\ result' = DateParser_parse(text, today)
    /\ Logged
    /\ UNCHANGED <<text, today, cut, memo, db>>

\* NLPParser.parse(text)
Parse ==
    /\ op = "none"
    /\ \E w \in JiebaCut(text, memo) :
          /\ cut' = w
          /\ memo' = (text :> w) @@ memo
          /\ result' = NLPParser_parse(text, today, w)
    /\ op' = "NLPParser.parse"
    /\ Logged
    /\ UNCHANGED <<text, today, db>>

\* NLPParser.parse_query(text)
ParseQuery ==
    /\ op = "none"
    /\ op' = "NLPParser.parse_query"
    /\ result' = NLPParser_parse_query(text, today)
    /\ Logged
    /\ UNCHANGED <<text, today, cut, memo, db>>

\* NLPParser._extract_amount(text)
ExtractAmount ==
    /\ op = "none"
    /\ op' = "_extract_amount"
    /\ result' = [value |-> NLPParser_extract_amount(text)]
    /\ Logged
    /\ UNCHANGED <<text, today, cut, memo, db>>

\* NLPParser._extract_category(text)
ExtractCategory ==
    /\ op = "none"
    /\ \E w \in JiebaCut(text, memo) :
          /\ cut' = w
          /\ memo' = (text :> w) @@ memo
          /\ result' = [value |-> NLPParser_extract_category(w)]
    /\ op' = "_extract_category"
    /\ Logged
    /\ UNCHANGED <<text, today, db>>

\* _detect_intent(text)
DetectIntent ==
    /\ op = "none"
    /\ op' = "_detect_intent"
    /\ result' = [intent |-> detect_intent(text)]
    /\ Logged
    /\ UNCHANGED <<text, today, cut, memo, db>>

\* the tokens NLPParser.parse gets from jieba.cut in _handle_record: it
\* resolves the date before it classifies, and when the resolver raises the
\* text is not segmented
record_cut(t, td, m) ==
    IF IsRaise(DateParser_parse(t, td)) THEN {<<>>} ELSE JiebaCut(t, m)

\* process_message(chat, db) with chat.message = text: the text is stripped,
\* an empty one is refused, the others go to the handler of their intent;
\* "record" and the last branch both go to _handle_record
ProcessMessage ==
    /\ op = "none"
    /\ op' = "process_message"
    /\ \E source \in {"text", "voice"} :
          LET t == Strip(text)
              intent == detect_intent(t)
          IN  IF t = <<>>
              THEN /\ result' = ChatResponse("empty", "error", None)
                   /\ UNCHANGED <<cut, memo, db>>
              ELSE IF intent = "query"
              THEN /\ result' = handle_query(t, today, db)
                   /\ UNCHANGED <<cut, memo, db>>
              ELSE IF intent = "analysis"
              THEN /\ result' = handle_analysis(t, db)
                   /\ UNCHANGED <<cut, memo, db>>
              ELSE \E w \in record_cut(t, today, memo) :
                      \E out \in handle_record(t, today, w, source, db) :
                          /\ result' = out.response
                          /\ db' = out.db
                          /\ IF IsRaise(out.response)
                             THEN UNCHANGED <<cut, memo>>
                             ELSE /\ cut' = w
                                  /\ memo' = (t :> w) @@ memo
    /\ Logged
    /\ UNCHANGED <<text, today>>

\* the next message of the conversation arrives, on the same day
NextChatMessage(texts) ==
    /\ op # "none"
    /\ Len(history) < MaxMessages
    /\ text' \in texts
    /\ op' = "none"
    /\ result' = None
    /\ cut' = <<>>
    /\ UNCHANGED <<today, history, memo, db>>

\* the next message of the session arrives, on the same day
NextMessage(texts) ==
    /\ op # "none"
    /\ Len(history) < MaxCalls
    /\ text' \in texts
    /\ op' = "none"
    /\ result' = None
    /\ cut' = <<>>
    /\ UNCHANGED <<today, history, memo, db>>

SpecNumeral ==
    InitCall(NumeralTexts, {Date(2024, 3, 15)}) /\ [][ChineseToNumber]_vars


\* the reference dates: from 2023-02-20, through the leap day of 2024
FirstToday == Date(2023, 2, 20)

\* a shorter range around the turn of the year, through 2024-03-23
FirstFewToday == Date(2023, 12, 25)

\* around the turn of the year
FirstRecordToday == Date(2023, 12, 31)

SpecDate ==
    InitCall(DateTexts, Days(FirstToday, NumTodays)) /\ [][Resolve]_vars

SpecRecord ==
    InitCall(RecordTexts, Days(FirstRecordToday, NumRecordTodays))
        /\ [][Parse \/ Resolve]_vars

SpecQuery ==
    InitCall(QueryTexts, Days(FirstFewToday, NumFewTodays)) /\ [][ParseQuery]_vars

SpecAmount ==
    InitCall(AmountTexts, {Date(2024, 3, 15)}) /\ [][ExtractAmount]_vars

\* a record command cut in several ways, a keyword, a period phrase
SessionTexts == {<<"hui", "shou", "ru", "kou">>, <<"noon", "can">>, <<"shang", "ge", "yue">>}

SpecSession ==
    InitCall(SessionTexts, {Date(2024, 3, 15)})
        /\ [][Parse \/ ParseQuery \/ DetectIntent \/ NextMessage(SessionTexts)]_vars

SpecCategory ==
    InitCall(CategoryTexts, {Date(2024, 3, 15)}) /\ [][ExtractCategory]_vars

SpecQueryKind ==
    InitCall(QueryKindTexts, {Date(2024, 3, 15)}) /\ [][ParseQuery]_vars

SpecIntent ==
    InitCall(IntentTexts, {Date(2024, 3, 15)}) /\ [][DetectIntent]_vars

\* chat messages: " 午餐 7 元 ", 五百元午餐, a blank one, 花了多少 120,
\* 上個月花了多少, 幫我 50元, 0元, 800000天前 5元, 收入 5 元
ChatTexts ==
    {<<" ", "noon", "can", " ", "7", " ", "yuan", " ">>,
     <<"wu", "bai", "yuan", "noon", "can">>,
     <<" ">>,
     <<"hua", "le", "duo", "shao", " ", "1", "2", "0">>,
     <<"shang", "ge", "yue", "hua", "le", "duo", "shao">>,
     <<"bang", "wo", " ", "5", "0", "yuan">>,
     <<"0", "yuan">>,
     <<"8", "0", "0", "0", "0", "0", "tian", "before", " ", "5", "yuan">>,
     <<"shou", "ru", " ", "5", " ", "yuan">>}

\* the categories tables: _init_default_categories fills an empty table and
\* leaves any other as it finds it, so the table is the default one or one
\* that was there before: here one with 其他 only, one with two income rows
CategoryTables ==
    {DefaultCategories,
     <<[id |-> 1, name |-> <<"u5176", "u4ed6">>, type |-> "expense"]>>,
     <<[id |-> 1, name |-> <<"xin", "u8cc7">>, type |-> "income"],
       [id |-> 2, name |-> <<"u6295", "u8cc7">>, type |-> "income"]>>}

InitChat ==
    /\ text \in ChatTexts
    /\ today = Date(2024, 3, 15)
    /\ cut = <<>>
    /\ op = "none"
    /\ result = None
    /\ history = <<>>
    /\ memo = [t \in {} |-> <<>>]
    /\ db \in {[categories |-> c, transactions |-> <<>>] : c \in CategoryTables}

SpecChat ==
    InitChat /\ [][ProcessMessage \/ NextChatMessage(ChatTexts)]_vars


(***************************************************************************)
(* Properties                                                              *)
(***************************************************************************)
\* the value a well-formed numeral denotes: every digit counts with the
\* magnitude that follows it (a magnitude without a digit counts once), a
\* last digit counts as units, 零 counts nothing
RECURSIVE NumeralValue(_, _)
NumeralValue(s, pending) ==
    IF s = <<>> THEN pending
    ELSE LET v == NLPParser_CHINESE_NUMS[Head(s)]
         IN  IF v >= 10
             THEN (IF pending = 0 THEN 1 ELSE pending) * v + NumeralValue(Tail(s), 0)
             ELSE NumeralValue(Tail(s), v)

\* C1: _chinese_to_number returns the integer value of every well-formed
\* Chinese numeral, also of those in which a digit follows a magnitude
\* (兩千三百 = 2300, 三十五 = 35, 十五 = 15).
C1_NumeralValue ==
    op = "_chinese_to_number" => result.value = NumeralValue(text, 0)

\* the day before d, by the calendar
PrevDay(d) ==
    IF d.day > 1 THEN Date(d.year, d.month, d.day - 1)
    ELSE IF d.month > 1 THEN Date(d.year, d.month - 1, DaysInMonth(d.year, d.month - 1))
    ELSE Date(d.year - 1, 12, 31)

RECURSIVE DaysBefore(_, _)
DaysBefore(d, n) == IF n = 0 THEN d ELSE DaysBefore(PrevDay(d), n - 1)

\* C2: for every reference date and every N in 1..31, in digits or as a
\* Chinese numeral, the Date Resolver maps "N天前" to the day N days before
\* the reference date, across month and year boundaries.
DaysAgoOf == [t \in DaysAgoTexts |-> CHOOSE n \in 1..MaxDaysAgo : t \in DaysAgoTextsOf(n)]

PrevMonth(d) ==
    IF d.month > 1 THEN [year |-> d.year, month |-> d.month - 1]
    ELSE [year |-> d.year - 1, month |-> 12]

\* C3: parseQuery of a text with 上個月 (and none of 今天 今日 這週 本週, and
\* no month count) returns period month with the first and the last day of
\* the month before today's; 上個月餐飲花多少 on 2024-03-15 gives 2024-02-01 to
\* 2024-02-29, category 餐飲, kind category.
C3_LastMonthQuery ==
    (/\ op = "NLPParser.parse_query"
     /\ Contains(text, <<"shang", "ge", "yue">>)
     /\ ~Contains(text, <<"jin", "tian">>) /\ ~Contains(text, <<"jin", "ri">>)
     /\ ~Contains(text, <<"zhe", "zhou">>) /\ ~Contains(text, <<"ben", "zhou">>)
     /\ SearchMonths(text).start = 0)
    => /\ ~IsRaise(result)
       /\ result.period = "month"
       /\ result.start_date = Date(PrevMonth(today).year, PrevMonth(today).month, 1)
       /\ result.end_date = PrevDay(Date(today.year, today.month, 1))
       /\ (text = <<"shang", "ge", "yue", "can", "yin", "hua", "duo", "shao">> /\ today = Date(2024, 3, 15)) =>
              /\ result.start_date = Date(2024, 2, 1)
              /\ result.end_date = Date(2024, 2, 29)
              /\ result.category = <<"can", "yin">>
              /\ result.query_type = "category"

\* C4: parseQuery never raises: for every text it returns a ParsedQuery with
\* all six fields.
C4_ParseQueryTotal ==
    op = "NLPParser.parse_query" =>
        /\ ~IsRaise(result)
        /\ DOMAIN result = {"query_type", "category", "period", "start_date",
                            "end_date", "chart_type"}

\* C5: parseRecord and the Date Resolver never raise, whatever the text and
\* the reference date.
C5_NeverRaises ==
    op \in {"DateParser.parse", "NLPParser.parse"} => ~IsRaise(result)

\* the fields of the record parsed from 午餐 120 元, confidence apart
LunchRecord ==
    /\ ~IsRaise(result)
    /\ result.amount = [mant |-> 120, exp |-> 0]
    /\ result.category = <<"can", "yin">>
    /\ result.type = "expense"
    /\ result.date = today

C7_KindIffIncomeCategory ==
    (op = "NLPParser.parse" /\ ~IsRaise(result)) =>
        (result.type = "income" <=> result.category \in INCOME_CATEGORIES)

HasQueryKeyword(t) == \E k \in 1..Len(query_keywords) : Contains(t, query_keywords[k])

HasAnalysisKeyword(t) ==
    \E k \in 1..Len(analysis_keywords) : Contains(t, analysis_keywords[k])

HasDigit(t) == \E i \in 1..Len(t) : t[i] \in Digits

\* C8: the intent rules apply in the order query keywords, analysis
\* keywords, digits: a query keyword gives query whatever else the text has
\* (這個月花了多少 is a query without a digit), else an analysis keyword gives
\* analysis even with digits, else a digit gives record, else analysis.
C8_IntentPriority ==
    op = "_detect_intent" =>
        /\ HasQueryKeyword(text) => result.intent = "query"
        /\ (~HasQueryKeyword(text) /\ HasAnalysisKeyword(text)) =>
               result.intent = "analysis"
        /\ (~HasQueryKeyword(text) /\ ~HasAnalysisKeyword(text)) =>
               result.intent = (IF HasDigit(text) THEN "record" ELSE "analysis")
        /\ text = <<"zhe", "ge", "yue", "hua", "le", "duo", "shao">> => result.intent = "query"

C8_Witness ==
    /\ op = "_detect_intent"
    /\ HasQueryKeyword(text) /\ HasAnalysisKeyword(text) /\ HasDigit(text)
    /\ result.intent = "query"

\* the query keywords as C9 lists them: 花了多少 查詢 統計 報告 報表 趨勢 分析圖
ListedQueryKeywords ==
    {<<"hua", "le", "duo", "shao">>, <<"cha", "xun">>, <<"tong", "ji">>, <<"bao", "gao">>, <<"bao", "biao">>, <<"qu", "shi_t">>, <<"fen", "xi", "tu">>}

\* C9 as stated: a text with a digit, none of the seven listed query
\* keywords and no analysis keyword is a record.
C9_Original ==
    (/\ op = "_detect_intent"
     /\ HasDigit(text)
     /\ \A kw \in ListedQueryKeywords : ~Contains(text, kw)
     /\ ~HasAnalysisKeyword(text))
    => result.intent = "record"

\* C9: a text with a digit, none of the query keywords 花了多少 多少錢 查詢
\* 統計 報告 報表 趨勢 分析圖 and no analysis keyword is a record.
C9_DigitsGiveRecord ==
    (/\ op = "_detect_intent"
     /\ HasDigit(text)
     /\ \A kw \in ListedQueryKeywords \cup {<<"duo", "shao", "money">>} : ~Contains(text, kw)
     /\ ~HasAnalysisKeyword(text))
    => result.intent = "record"

C9_Witness ==
    /\ op = "_detect_intent"
    /\ text = <<"noon", "can", "1", "2", "0", "yuan">>
    /\ result.intent = "record"

\* C10: "上個月<N>號/日" gives day N of the month before today's month, or the
\* last day of that month when it has no day N, without raising; before
\* January comes December of the year before.
LastMonthDayOf ==
    [t \in UNION {LastMonthTextsOf(n) : n \in 1..MaxDayNumber} |->
        CHOOSE n \in 1..MaxDayNumber : t \in LastMonthTextsOf(n)]

C10_LastMonthDay ==
    (op = "DateParser.parse" /\ text \in DOMAIN LastMonthDayOf) =>
        LET n == LastMonthDayOf[text]
            pm == PrevMonth(today)
            len == DaysInMonth(pm.year, pm.month)
        IN  result = Date(pm.year, pm.month, IF n <= len THEN n ELSE len)

C10_Witness ==
    /\ op = "DateParser.parse"
    /\ today = Date(2024, 3, 15)
    /\ text = <<"shang", "ge", "yue", "3", "1", "hao">>
    /\ result = Date(2024, 2, 29)

\* C11: for every text containing 今天, whatever else it contains, the date
\* resolver returns exactly the reference date
C11_TodayWins ==
    (op = "DateParser.parse" /\ Contains(text, <<"jin", "tian">>)) => result = today

\* 今天 after "800000天前" and before "上個月31號"
C11_Witness ==
    /\ op = "DateParser.parse"
    /\ text = <<"8", "0", "0", "0", "0", "0", "tian", "before", "jin", "tian",
                "shang", "ge", "yue", "3", "1", "hao">>
    /\ today = Date(2024, 3, 15)
    /\ result = Date(2024, 3, 15)

\* the float of the whole number n
Amount(n) == [mant |-> n, exp |-> 0]

\* C12: for every digit run d the amount extractor returns the same value
\* for "d元" and for "$d", namely the number d
C12_YuanAndDollar ==
    op = "_extract_amount" =>
        \A d \in DOMAIN DigitRunValue :
            (text = d \o <<"yuan">> \/ text = <<"$">> \o d) =>
                result.value = Amount(DigitRunValue[d])

C12_Witness ==
    /\ op = "_extract_amount"
    /\ text = <<"$", "1", "2", "0">>
    /\ result.value = Amount(120)

\* C13: every ParsedRecord has a confidence in [0, 1] (0..10 tenths) and a
\* category name that is neither null nor empty, for every text
C13_ConfidenceAndCategory ==
    (op = "NLPParser.parse" /\ ~IsRaise(result)) =>
        /\ result.confidence \in 0..10
        /\ result.category # None
        /\ Len(result.category) > 0

\* the empty text: no amount, no date, no category found
C13_Witness ==
    /\ op = "NLPParser.parse"
    /\ text = <<>>
    /\ result.amount = None
    /\ result.category = <<"u5176", "u4ed6">>
    /\ result.confidence = 1

ZeroAmountTexts == {d \o <<" ", "0", "yuan">> : d \in RecordDescriptions}

ZeroAmountDatedTexts ==
    {d \o <<" ", "0", "yuan">> \o w : d \in RecordDescriptions, w \in RecordDatePhrases}

\* C15: the amount of every ParsedRecord is none or strictly positive; a
\* text whose extracted amount is zero has amount none and a confidence
\* without the 0.4 of the amount: 0.1 or 0.4 for the category, and 0.1 more
\* with a date
C15_AmountPositive ==
    (op = "NLPParser.parse" /\ ~IsRaise(result)) =>
        /\ result.amount = None \/ result.amount.mant > 0
        /\ text \in ZeroAmountTexts =>
               result.amount = None /\ result.confidence \in {1, 4}
        /\ text \in ZeroAmountDatedTexts =>
               result.amount = None /\ result.confidence \in {2, 5}

\* "午餐 0元 昨天": category and date found, the amount 0.0 dropped
C15_Witness ==
    /\ op = "NLPParser.parse"
    /\ text = <<"noon", "can", " ", "0", "yuan", " ", "zuo", "tian">>
    /\ result.amount = None
    /\ result.confidence = 5

C17_ThreeDaysAgo ==
    (/\ op = "DateParser.parse"
     /\ Contains(text, <<"da", "before", "tian">>)
     /\ \A m \in {<<"jin", "tian">>, <<"jin", "ri">>, <<"zuo", "tian">>, <<"zuo", "ri">>} : ~Contains(text, m))
        => result = DaysBefore(today, 3)

\* the full dates among the texts, all valid and without a relative phrase:
\* 2024年12月20日 2024/12/20 2024-12-20 2024年2月29日 2012-12-12
FullDateOf ==
    (<<"2", "0", "2", "4", "nian", "1", "2", "yue", "2", "0", "ri">> :> Date(2024, 12, 20))
      @@ (<<"2", "0", "2", "4", "/", "1", "2", "/", "2", "0">> :> Date(2024, 12, 20))
      @@ (<<"2", "0", "2", "4", "-", "1", "2", "-", "2", "0">> :> Date(2024, 12, 20))
      @@ (<<"2", "0", "2", "4", "nian", "2", "yue", "2", "9", "ri">> :> Date(2024, 2, 29))
      @@ (<<"2", "0", "1", "2", "-", "1", "2", "-", "1", "2">> :> Date(2012, 12, 12))

\* C18: for a text with a full date <Y>年<M>月<D>日, <Y>/<M>/<D> or
\* <Y>-<M>-<D> that is a valid date, and no relative-date phrase, the date
\* resolver returns the date with year Y, month M and day D, whatever today is
C18_FullDate ==
    (op = "DateParser.parse" /\ text \in DOMAIN FullDateOf) =>
        result = FullDateOf[text]

\* the day number N of the texts "N號", "N日", "這個月N號", "這個月N日"
ThisMonthDayOf ==
    [t \in {p \o Arabic(n) \o s : p \in {<<>>, <<"zhe", "ge", "yue">>}, n \in 1..MaxDayNumber,
                                   s \in {<<"hao">>, <<"ri">>}} |->
        CHOOSE n \in 1..MaxDayNumber :
            \E p \in {<<>>, <<"zhe", "ge", "yue">>}, s \in {<<"hao">>, <<"ri">>} :
                t = p \o Arabic(n) \o s]

\* C19: "(這個月)?N號/日" gives day N of today's month when that day exists
\* and the last day of today's month when N exceeds its length
C19_ThisMonthDay ==
    (op = "DateParser.parse" /\ text \in DOMAIN ThisMonthDayOf) =>
        LET n == ThisMonthDayOf[text]
            len == DaysInMonth(today.year, today.month)
        IN  result = Date(today.year, today.month, IF n <= len THEN n ELSE len)

\* the value of the Chinese numeral of the texts that have a numeral before
\* a currency unit and a bare digit run: 3號五百元, 五百元3號, "五百元 3",
\* 午餐3個兩千塊, 五百錢12, 三十五元3號
ChineseAmountOf ==
    (<<"3", "hao", "wu", "bai", "yuan">> :> 500)
      @@ (<<"wu", "bai", "yuan", "3", "hao">> :> 500)
      @@ (<<"wu", "bai", "yuan", " ", "3">> :> 500)
      @@ (<<"noon", "can", "3", "ge", "liang", "qian", "kuai">> :> 2000)
      @@ (<<"wu", "bai", "money", "1", "2">> :> 500)
      @@ (<<"san", "shi", "wu", "yuan", "3", "hao">> :> 35)

\* C20: for a text with no digit run before 元/塊/錢 and none after $ or NT$,
\* with a Chinese numeral before a currency unit and a bare digit run at any
\* position, the amount extractor returns the value of the Chinese numeral
C20_ChineseBeforeDigits ==
    (op = "_extract_amount" /\ text \in DOMAIN ChineseAmountOf) =>
        result.value = Amount(ChineseAmountOf[text])

\* C21: for every text with a digit run followed by 元/塊/錢 or preceded by
\* $/NT$, the amount extractor returns the value of the currency-marked
\* digit run and never that of a bare digit run, also when the bare digit
\* run comes first
C21_MarkedOverBare ==
    op = "_extract_amount" =>
        \A c \in MarkedAmountCases :
            text = c.text => result.value = Amount(c.value)

\* "3個午餐120元" gives 120
C21_Witness ==
    /\ op = "_extract_amount"
    /\ text = <<"3", "ge", "noon", "can", "1", "2", "0", "yuan">>
    /\ result.value = Amount(120)

\* the day after d, by the calendar
NextDay(d) ==
    IF d.day < DaysInMonth(d.year, d.month) THEN Date(d.year, d.month, d.day + 1)
    ELSE IF d.month < 12 THEN Date(d.year, d.month + 1, 1)
    ELSE Date(d.year + 1, 1, 1)

\* the day k days from d, k of either sign
RECURSIVE DaysFrom(_, _)
DaysFrom(d, k) ==
    IF k = 0 THEN d
    ELSE IF k > 0 THEN DaysFrom(NextDay(d), k - 1)
    ELSE DaysFrom(PrevDay(d), k + 1)

\* the day of the week of d, Monday = 0 .. Sunday = 6, by the month-offset
\* table of the Gregorian calendar
DayOfWeek(d) ==
    LET offsets == <<0, 3, 2, 5, 0, 3, 5, 1, 4, 6, 2, 4>>
        y == IF d.month < 3 THEN d.year - 1 ELSE d.year
        fromSunday == (y + (y \div 4) - (y \div 100) + (y \div 400)
                         + offsets[d.month] + d.day) % 7
    IN  (fromSunday + 6) % 7

\* the Monday of the week of d
MondayOf(d) == DaysFrom(d, -DayOfWeek(d))

WeekOffsetOf == ("shang" :> -1) @@ ("zhe" :> 0) @@ ("xia" :> 1)

NamedWeekday ==
    ("yi" :> 0) @@ ("er" :> 1) @@ ("san" :> 2) @@ ("si" :> 3) @@ ("wu" :> 4)
      @@ ("liu" :> 5) @@ ("ri" :> 6) @@ ("tian" :> 6)

\* C22: "(上|這|下)週<weekday>" resolves to today plus
\* (target - current + 7 * offset) days; the result falls on the named
\* weekday, in the Monday-to-Sunday week that is offset weeks from today's
C22_WeekdayRule ==
    (/\ op = "DateParser.parse"
     /\ Len(text) = 3
     /\ text[1] \in DOMAIN WeekOffsetOf /\ text[2] = "zhou" /\ text[3] \in DOMAIN NamedWeekday)
        => LET offset == WeekOffsetOf[text[1]]
               target == NamedWeekday[text[3]]
           IN  /\ result = DaysFrom(today, target - DayOfWeek(today) + 7 * offset)
               /\ DayOfWeek(result) = target
               /\ MondayOf(result) = DaysFrom(MondayOf(today), 7 * offset)

\* 上週日 on Wednesday 2024-01-03 is Sunday 2023-12-31
C22_Witness ==
    /\ op = "DateParser.parse"
    /\ text = <<"shang", "zhou", "ri">>
    /\ today = Date(2024, 1, 3)
    /\ result = Date(2023, 12, 31)

\* the record texts with a date phrase that the date resolver resolves
DatedRecordTexts ==
    {d \o a \o w : d \in RecordDescriptions, a \in RecordAmounts, w \in RecordDatePhrases}
      \cup {<<"shang", "ge", "yue", "3", "1", "hao">>, <<"1", "2", "/", "2", "5", " ", "noon", "can">>,
            <<"1", "2", "0", "jin", "tian", "yuan">>, <<"jin", "zuo", "tian", "tian">>}

\* C23: the confidence of a ParsedRecord is the sum of 0.4 for an amount,
\* 0.1 for a resolved date and 0.4 for a classified category, or 0.1 for
\* the fallback category; without a resolved date the record's date is the
\* reference date; the confidence is one of 0.1 0.2 0.4 0.5 0.6 0.8 0.9
C23_ConfidenceSum ==
    (op = "NLPParser.parse" /\ ~IsRaise(result)) =>
        LET dated == text \in DatedRecordTexts
            classified == NLPParser_extract_category(cut) # None
        IN  /\ result.confidence =
                   (IF result.amount # None THEN 4 ELSE 0)
                     + (IF dated THEN 1 ELSE 0)
                     + (IF classified THEN 4 ELSE 1)
            /\ ~dated => result.date = today
            /\ result.confidence \in {1, 2, 4, 5, 6, 8, 9}

\* "薪水 50元 昨天": amount, date and category, 0.9
C23_Witness ==
    /\ op = "NLPParser.parse"
    /\ text = <<"xin", "shui", " ", "5", "0", "yuan", " ", "zuo", "tian">>
    /\ result.date = PrevDay(today)
    /\ result.confidence = 9

\* C24: when the classifier resolves no category the record's category is
\* 其他收入 if the text contains 收入 and 其他 otherwise; a category the
\* classifier resolves is used unchanged
C24_DefaultCategory ==
    (op = "NLPParser.parse" /\ ~IsRaise(result)) =>
        LET c == NLPParser_extract_category(cut)
        IN  result.category =
                IF c # None THEN c
                ELSE IF Contains(text, <<"shou", "ru">>) THEN <<"u5176", "u4ed6", "shou", "ru">>
                ELSE <<"u5176", "u4ed6">>

\* 回收入口 cut into 回收 and 入口: no keyword matches, the text contains 收入
C24_Witness ==
    /\ op = "NLPParser.parse"
    /\ text = <<"hui", "shou", "ru", "kou">>
    /\ cut = <<<<"hui", "shou">>, <<"ru", "kou">>>>
    /\ NLPParser_extract_category(cut) = None
    /\ result.category = <<"u5176", "u4ed6", "shou", "ru">>

\* the number of keywords of which the word is a part or which are a part
\* of the word
RECURSIVE KeywordMatches(_, _)
KeywordMatches(word, keywords) ==
    IF keywords = <<>> THEN 0
    ELSE (IF Contains(word, Head(keywords)) \/ Contains(Head(keywords), word)
          THEN 1 ELSE 0) + KeywordMatches(word, Tail(keywords))

\* the number of (token, keyword) pairs in which one is part of the other
RECURSIVE PairCount(_, _)
PairCount(tokens, keywords) ==
    IF tokens = <<>> THEN 0
    ELSE KeywordMatches(Head(tokens), keywords) + PairCount(Tail(tokens), keywords)

\* C25: the classifier scores each category by the number of (token,
\* keyword) pairs in which one is a substring of the other, returns the
\* category of the greatest score, the first one in table order among
\* equals, and none exactly when every score is zero
C25_MaxScoreFirstWins ==
    op = "_extract_category" =>
        LET C == 1..Len(CATEGORY_KEYWORDS)
            score == [c \in C |-> PairCount(cut, CATEGORY_KEYWORDS[c].keywords)]
        IN  IF \A c \in C : score[c] = 0 THEN result.value = None
            ELSE \E c \in C :
                    /\ result.value = CATEGORY_KEYWORDS[c].name
                    /\ \A d \in C : score[d] <= score[c]
                    /\ \A d \in C : d < c => score[d] < score[c]

\* 書買 cut into 書 and 買: 教育 and 購物 score one each, 購物 comes first in
\* the table
C25_Witness ==
    /\ op = "_extract_category"
    /\ text = <<"u66f8", "u8cb7">>
    /\ cut = <<<<"u66f8">>, <<"u8cb7">>>>
    /\ PairCount(cut, CATEGORY_KEYWORDS[4].keywords) = 1
    /\ PairCount(cut, CATEGORY_KEYWORDS[7].keywords) = 1
    /\ CATEGORY_KEYWORDS[4].name = <<"u8cfc", "u7269">>
    /\ result.value = <<"u8cfc", "u7269">>

\* the first day of the month k months before the month of d
RECURSIVE MonthStartBefore(_, _)
MonthStartBefore(d, k) ==
    IF k = 0 THEN Date(d.year, d.month, 1)
    ELSE MonthStartBefore(Date(PrevMonth(d).year, PrevMonth(d).month, 1), k - 1)

\* 近3個月, 近三個月, 近十個月 and their month counts
NearMonthsPhrases ==
    {[phrase |-> <<"near", "3", "ge", "yue">>, n |-> 3],
     [phrase |-> <<"near", "san", "ge", "yue">>, n |-> 3],
     [phrase |-> <<"near", "shi", "ge", "yue">>, n |-> 10]}

\* the end date the period rules set: the last day of last month for
\* 上個月 / 上月 (when no 今天 今日 這週 本週 comes before it), else today
PeriodEndDate(t, td) ==
    IF \E k \in {<<"jin", "tian">>, <<"jin", "ri">>, <<"zhe", "zhou">>, <<"ben", "zhou">>} : Contains(t, k) THEN td
    ELSE IF Contains(t, <<"shang", "ge", "yue">>) \/ Contains(t, <<"shang", "yue">>)
         THEN PrevDay(Date(td.year, td.month, 1))
    ELSE td

\* C26: for a text with "近N個月", N >= 1 in digits or as one Chinese numeral
\* character, parseQuery sets startDate to the first day of the month N - 1
\* months before today's month, whatever start date a period keyword set,
\* and leaves endDate as the period rules set it
C26_NearMonths ==
    op = "NLPParser.parse_query" =>
        \A c \in NearMonthsPhrases :
            Contains(text, c.phrase) =>
                /\ ~IsRaise(result)
                /\ result.start_date = MonthStartBefore(today, c.n - 1)
                /\ result.end_date = PeriodEndDate(text, today)

\* the period keywords whose rule returns: none, 今天, 今日, 這個月, 本月, 今年
ReturningPeriods ==
    {<<>>, <<"jin", "tian">>, <<"jin", "ri">>, <<"zhe", "ge", "yue">>, <<"ben", "yue">>, <<"jin", "nian">>}

C28_QueryKindPriority ==
    op = "NLPParser.parse_query" =>
        LET has(k) == Contains(text, k)
            named == {c \in 1..Len(CATEGORY_KEYWORDS) : has(CATEGORY_KEYWORDS[c].name)}
        IN  /\ ~IsRaise(result)
            /\ result.query_type =
                   IF has(<<"qu", "shi_t">>) \/ has(<<"u8b8a", "u5316">>) THEN "trend"
                   ELSE IF has(<<"u6bd4", "u8f03">>) \/ has(<<"u5c0d", "u6bd4">>) THEN "compare"
                   ELSE IF named # {} THEN "category"
                   ELSE "summary"
            /\ IF named = {} THEN result.category = None
               ELSE \E c \in named :
                       /\ result.category = CATEGORY_KEYWORDS[c].name
                       /\ \A d \in named : c <= d

\* 交通餐飲趨勢比較: trend, with category 餐飲, the first name of the table
C28_Witness ==
    /\ op = "NLPParser.parse_query"
    /\ text = <<"u4ea4", "u901a", "can", "yin", "qu", "shi_t", "u6bd4", "u8f03">>
    /\ result.query_type = "trend"
    /\ result.category = <<"can", "yin">>

\* C29: the description of a ParsedRecord contains none of the date keyword
\* phrases 今天 昨天 前天 今日 昨日 上週 這週 下週 上個月 這個月 and no digit run
\* followed by 元/塊/錢, for every text; cleaning it again changes nothing
C29_DescriptionClean ==
    (op = "NLPParser.parse" /\ ~IsRaise(result)) =>
        LET d == result.description
        IN  /\ \A k \in 1..Len(date_keywords) : ~Contains(d, date_keywords[k])
            /\ ~\E i \in 1..(Len(d) - 1) : d[i] \in Digits /\ d[i + 1] \in CurrencyUnits
            /\ NLPParser_clean_description(d) = d

\* C30: over any sequence of chat messages, the transactions are the rows
\* of the messages answered with a confirmation, in order: no other message
\* adds or changes one.  A message is answered so only if, stripped, it is
\* classified Record (no query keyword, no analysis keyword, a digit), an
\* amount is extracted from it and a category row is found: the one of
\* the parsed name, else 其他, else one of the parsed kind.  A message
\* without a digit adds none, and the categories stay as they were
C30_TransactionOnlyForRecord ==
    LET calls == {i \in 1..Len(history) : history[i].op = "process_message"}
        confirmed == {i \in calls : /\ ~IsRaise(history[i].result)
                                    /\ history[i].result.type = "confirmation"}
        rank(i) == Cardinality({j \in confirmed : j <= i})
        rows == {db.categories[k] : k \in 1..Len(db.categories)}
        named(n) == {c \in rows : c.name = n}
        keyword(t) == \/ \E k \in 1..Len(query_keywords) : Contains(t, query_keywords[k])
                      \/ \E k \in 1..Len(analysis_keywords) : Contains(t, analysis_keywords[k])
        digit(t) == \E k \in 1..Len(t) : t[k] \in Digits
    IN  /\ db.categories \in CategoryTables
        /\ Len(db.transactions) = Cardinality(confirmed)
        /\ \A i \in confirmed :
              LET t == Strip(history[i].text)
                  parsed == NLPParser_parse(t, today, memo[t])
                  new == db.transactions[rank(i)]
              IN  /\ new = history[i].result.data
                  /\ new.id = rank(i)
                  /\ digit(t) /\ ~keyword(t)
                  /\ NLPParser_extract_amount(t) # None
                  /\ new.amount = NLPParser_extract_amount(t)
                  /\ \E c \in rows :
                        /\ new.category_id = c.id
                        /\ \/ c \in named(parsed.category)
                           \/ /\ named(parsed.category) = {}
                              /\ c.name = <<"u5176", "u4ed6">>
                           \/ /\ named(parsed.category) = {}
                              /\ named(<<"u5176", "u4ed6">>) = {}
                              /\ c.type = parsed.type
        /\ \A i \in calls : ~digit(history[i].text) => i \notin confirmed

\* after 五百元午餐, which is answered as an analysis, and " 午餐 7 元 ", which
\* is recorded, the table holds one transaction, of 7 in 餐飲
C30_Witness ==
    /\ op = "process_message"
    /\ Len(history) = 2
    /\ history[1].text = <<"wu", "bai", "yuan", "noon", "can">>
    /\ history[1].result.type = "analysis"
    /\ text = <<" ", "noon", "can", " ", "7", " ", "yuan", " ">>
    /\ result.type = "confirmation"
    /\ db.categories = DefaultCategories
    /\ Len(db.transactions) = 1
    /\ db.transactions[1].amount = Amount(7)
    /\ db.transactions[1].category_id = 1

====
